---- MODULE Spec2Model ----
(***************************************************************************)
(* Session Manager (ChatBotService), Response Resolver (generateResponse), *)
(* Record Store (DatabaseService), Remote Responder (ApiService) and Voice *)
(* Pipeline (VoiceService) of the chat assistant, as one state machine.    *)
(*                                                                         *)
(* JavaScript runs the business logic on one thread: an async function     *)
(* runs without interruption up to its next await of an operation that     *)
(* really suspends (a SQL statement, NetInfo.fetch, axios.post, a timer),  *)
(* so every action below is one such uninterrupted run.  SQL statements    *)
(* of the single database connection are executed in the order in which    *)
(* they were submitted (dbQueue).                                          *)
(*                                                                         *)
(* A string is a tuple of one-character strings, so that toLowerCase,      *)
(* includes, LIKE and JSON.stringify are computed and not assumed.         *)
(***************************************************************************)
EXTENDS Integers, Sequences, FiniteSets, TLC

\* ------------------------------------------------------------------ bounds
\* UI calls of sendMessage(text, true)
MaxSends == 2
\* UI calls of createNewSession()
MaxCreates == 1
\* UI calls of loadSession(id)
MaxLoads == 1
\* largest value of the millisecond clock
MaxClock == 1
\* SQL statements that may be rejected by the store
MaxFailures == 1

\* calls of deleteSession(id)
MaxDeletes == 1
\* welcome messages ChatScreen sends
MaxWelcomes == 1
\* presses of ChatScreen's send button
MaxScreens == 2
\* words in a text given to generateMockResponse
MaxWords == 3
\* characters in a query given to searchCompanyData
MaxQueryLength == 2
\* calls of handleVoiceInput()
MaxListens == 2
\* calls of stopVoiceInput()
MaxStops == 1
\* times Math.random() returns a number it returned before
MaxRepeats == 1
\* calls of cleanup()
MaxCleanups == 1

\* ------------------------------------------------------- string constants
ApologyText ==
    <<"I", " ", "a", "p", "o", "l", "o", "g", "i", "z", "e", ",", " ", "b", "u", "t", " ", "I",
    " ", "e", "n", "c", "o", "u", "n", "t", "e", "r", "e", "d", " ", "a", "n", " ", "e", "r", "r",
    "o", "r", " ", "w", "h", "i", "l", "e", " ", "p", "r", "o", "c", "e", "s", "s", "i", "n", "g",
    " ", "y", "o", "u", "r", " ", "r", "e", "q", "u", "e", "s", "t", ".", " ", "P", "l", "e", "a",
    "s", "e", " ", "t", "r", "y", " ", "a", "g", "a", "i", "n", ".">>

GreetingText ==
    <<"H", "e", "l", "l", "o", "!", " ", "H", "o", "w", " ", "c", "a", "n", " ", "I", " ", "h",
    "e", "l", "p", " ", "y", "o", "u", " ", "t", "o", "d", "a", "y", "?", " ", "I", " ", "c", "a",
    "n", " ", "a", "s", "s", "i", "s", "t", " ", "y", "o", "u", " ", "w", "i", "t", "h", " ", "c",
    "o", "m", "p", "a", "n", "y", " ", "i", "n", "f", "o", "r", "m", "a", "t", "i", "o", "n", " ",
    "a", "n", "d", " ", "a", "n", "s", "w", "e", "r", " ", "y", "o", "u", "r", " ", "q", "u", "e",
    "s", "t", "i", "o", "n", "s", ".">>

HelpText ==
    <<"I", " ", "c", "a", "n", " ", "h", "e", "l", "p", " ", "y", "o", "u", " ", "w", "i", "t",
    "h", ":", "\n", "U+2022", " ", "C", "o", "m", "p", "a", "n", "y", " ", "i", "n", "f", "o", "r",
    "m", "a", "t", "i", "o", "n", " ", "a", "n", "d", " ", "p", "o", "l", "i", "c", "i", "e", "s",
    "\n", "U+2022", " ", "P", "r", "o", "d", "u", "c", "t", " ", "d", "e", "t", "a", "i", "l", "s",
    "\n", "U+2022", " ", "G", "e", "n", "e", "r", "a", "l", " ", "i", "n", "q", "u", "i", "r", "i",
    "e", "s", "\n", "U+2022", " ", "V", "o", "i", "c", "e", " ", "c", "o", "m", "m", "a", "n", "d",
    "s", "\n", "\n", "J", "u", "s", "t", " ", "a", "s", "k", " ", "m", "e", " ", "a", "n", "y",
    "t", "h", "i", "n", "g", " ", "o", "r", " ", "u", "s", "e", " ", "v", "o", "i", "c", "e", " ",
    "i", "n", "p", "u", "t", "!">>

ThanksText ==
    <<"Y", "o", "u", "'", "r", "e", " ", "w", "e", "l", "c", "o", "m", "e", "!", " ", "I", "s",
    " ", "t", "h", "e", "r", "e", " ", "a", "n", "y", "t", "h", "i", "n", "g", " ", "e", "l", "s",
    "e", " ", "I", " ", "c", "a", "n", " ", "h", "e", "l", "p", " ", "y", "o", "u", " ", "w", "i",
    "t", "h", "?">>

EchoPrefix ==
    <<"I", " ", "u", "n", "d", "e", "r", "s", "t", "a", "n", "d", " ", "y", "o", "u", "'", "r",
    "e", " ", "a", "s", "k", "i", "n", "g", " ", "a", "b", "o", "u", "t", ":", " ", "\"">>

EchoSuffix ==
    <<"\"", ".", " ", "L", "e", "t", " ", "m", "e", " ", "s", "e", "a", "r", "c", "h", " ", "o",
    "u", "r", " ", "d", "a", "t", "a", "b", "a", "s", "e", " ", "f", "o", "r", " ", "r", "e", "l",
    "e", "v", "a", "n", "t", " ", "i", "n", "f", "o", "r", "m", "a", "t", "i", "o", "n", ".", " ",
    "I", "f", " ", "y", "o", "u", " ", "n", "e", "e", "d", " ", "i", "m", "m", "e", "d", "i", "a",
    "t", "e", " ", "a", "s", "s", "i", "s", "t", "a", "n", "c", "e", ",", " ", "p", "l", "e", "a",
    "s", "e", " ", "t", "r", "y", " ", "r", "e", "p", "h", "r", "a", "s", "i", "n", "g", " ", "y",
    "o", "u", "r", " ", "q", "u", "e", "s", "t", "i", "o", "n", ".">>

WelcomeText ==
    <<"H", "e", "l", "l", "o", "!", " ", "I", "'", "m", " ", "y", "o", "u", "r", " ", "A", "I",
    " ", "a", "s", "s", "i", "s", "t", "a", "n", "t", ".", " ", "I", " ", "c", "a", "n", " ", "h",
    "e", "l", "p", " ", "y", "o", "u", " ", "w", "i", "t", "h", " ", "c", "o", "m", "p", "a", "n",
    "y", " ", "i", "n", "f", "o", "r", "m", "a", "t", "i", "o", "n", ",", " ", "a", "n", "s", "w",
    "e", "r", " ", "q", "u", "e", "s", "t", "i", "o", "n", "s", ",", " ", "a", "n", "d", " ", "I",
    " ", "s", "u", "p", "p", "o", "r", "t", " ", "b", "o", "t", "h", " ", "t", "e", "x", "t", " ",
    "a", "n", "d", " ", "v", "o", "i", "c", "e", " ", "i", "n", "p", "u", "t", ".", " ", "H", "o",
    "w", " ", "c", "a", "n", " ", "I", " ", "a", "s", "s", "i", "s", "t", " ", "y", "o", "u", " ",
    "t", "o", "d", "a", "y", "?">>

TitleOverview ==
    <<"C", "o", "m", "p", "a", "n", "y", " ", "O", "v", "e", "r", "v", "i", "e", "w">>

ContentOverview ==
    <<"O", "u", "r", " ", "c", "o", "m", "p", "a", "n", "y", " ", "i", "s", " ", "a", " ", "l",
    "e", "a", "d", "i", "n", "g", " ", "t", "e", "c", "h", "n", "o", "l", "o", "g", "y", " ", "f",
    "i", "r", "m", " ", "s", "p", "e", "c", "i", "a", "l", "i", "z", "i", "n", "g", " ", "i", "n",
    " ", "A", "I", " ", "s", "o", "l", "u", "t", "i", "o", "n", "s", ",", " ", "m", "o", "b", "i",
    "l", "e", " ", "a", "p", "p", " ", "d", "e", "v", "e", "l", "o", "p", "m", "e", "n", "t", ",",
    " ", "a", "n", "d", " ", "c", "l", "o", "u", "d", " ", "s", "e", "r", "v", "i", "c", "e", "s",
    ".", " ", "F", "o", "u", "n", "d", "e", "d", " ", "i", "n", " ", "2", "0", "1", "5", ",", " ",
    "w", "e", " ", "s", "e", "r", "v", "e", " ", "c", "l", "i", "e", "n", "t", "s", " ", "w", "o",
    "r", "l", "d", "w", "i", "d", "e", ".">>

TitleCatalog ==
    <<"P", "r", "o", "d", "u", "c", "t", " ", "C", "a", "t", "a", "l", "o", "g">>

ContentCatalog ==
    <<"W", "e", " ", "o", "f", "f", "e", "r", " ", "a", " ", "c", "o", "m", "p", "r", "e", "h",
    "e", "n", "s", "i", "v", "e", " ", "s", "u", "i", "t", "e", " ", "o", "f", " ", "p", "r", "o",
    "d", "u", "c", "t", "s", " ", "i", "n", "c", "l", "u", "d", "i", "n", "g", " ", "m", "o", "b",
    "i", "l", "e", " ", "a", "p", "p", "l", "i", "c", "a", "t", "i", "o", "n", "s", ",", " ", "w",
    "e", "b", " ", "p", "l", "a", "t", "f", "o", "r", "m", "s", ",", " ", "A", "I", " ", "c", "h",
    "a", "t", "b", "o", "t", "s", ",", " ", "a", "n", "d", " ", "c", "u", "s", "t", "o", "m", " ",
    "s", "o", "f", "t", "w", "a", "r", "e", " ", "s", "o", "l", "u", "t", "i", "o", "n", "s", ".">>

TitleSupport ==
    <<"S", "u", "p", "p", "o", "r", "t", " ", "P", "o", "l", "i", "c", "y">>

ContentSupport ==
    <<"O", "u", "r", " ", "s", "u", "p", "p", "o", "r", "t", " ", "t", "e", "a", "m", " ", "i",
    "s", " ", "a", "v", "a", "i", "l", "a", "b", "l", "e", " ", "2", "4", "/", "7", " ", "t", "o",
    " ", "a", "s", "s", "i", "s", "t", " ", "c", "u", "s", "t", "o", "m", "e", "r", "s", ".", " ",
    "W", "e", " ", "p", "r", "o", "v", "i", "d", "e", " ", "e", "m", "a", "i", "l", ",", " ", "p",
    "h", "o", "n", "e", ",", " ", "a", "n", "d", " ", "c", "h", "a", "t", " ", "s", "u", "p", "p",
    "o", "r", "t", " ", "w", "i", "t", "h", " ", "r", "e", "s", "p", "o", "n", "s", "e", " ", "t",
    "i", "m", "e", "s", " ", "u", "n", "d", "e", "r", " ", "2", " ", "h", "o", "u", "r", "s", ".">>

TitlePrivacy ==
    <<"P", "r", "i", "v", "a", "c", "y", " ", "P", "o", "l", "i", "c", "y">>

ContentPrivacy ==
    <<"W", "e", " ", "r", "e", "s", "p", "e", "c", "t", " ", "y", "o", "u", "r", " ", "p", "r",
    "i", "v", "a", "c", "y", " ", "a", "n", "d", " ", "p", "r", "o", "t", "e", "c", "t", " ", "y",
    "o", "u", "r", " ", "p", "e", "r", "s", "o", "n", "a", "l", " ", "d", "a", "t", "a", " ", "a",
    "c", "c", "o", "r", "d", "i", "n", "g", " ", "t", "o", " ", "G", "D", "P", "R", " ", "a", "n",
    "d", " ", "o", "t", "h", "e", "r", " ", "a", "p", "p", "l", "i", "c", "a", "b", "l", "e", " ",
    "r", "e", "g", "u", "l", "a", "t", "i", "o", "n", "s", ".", " ", "Y", "o", "u", "r", " ", "d",
    "a", "t", "a", " ", "i", "s", " ", "e", "n", "c", "r", "y", "p", "t", "e", "d", " ", "a", "n",
    "d", " ", "s", "e", "c", "u", "r", "e", ".">>

GreetingTopics ==
  <<
     <<"g", "r", "e", "e", "t", "i", "n", "g">>,
     <<"h", "e", "l", "p">>,
     <<"a", "s", "s", "i", "s", "t", "a", "n", "c", "e">>
  >>

HelpTopics ==
  <<
     <<"h", "e", "l", "p">>,
     <<"f", "e", "a", "t", "u", "r", "e", "s">>,
     <<"v", "o", "i", "c", "e">>
  >>

ThanksTopics ==
  <<
     <<"t", "h", "a", "n", "k", "s">>,
     <<"a", "s", "s", "i", "s", "t", "a", "n", "c", "e">>
  >>

EchoTopics ==
  <<
     <<"s", "e", "a", "r", "c", "h">>,
     <<"i", "n", "f", "o", "r", "m", "a", "t", "i", "o", "n">>
  >>

KeywordsOverview ==
  <<
     <<"c", "o", "m", "p", "a", "n", "y">>,
     <<"o", "v", "e", "r", "v", "i", "e", "w">>,
     <<"t", "e", "c", "h", "n", "o", "l", "o", "g", "y">>,
     <<"A", "I">>,
     <<"m", "o", "b", "i", "l", "e">>,
     <<"c", "l", "o", "u", "d">>
  >>

KeywordsCatalog ==
  <<
     <<"p", "r", "o", "d", "u", "c", "t", "s">>,
     <<"m", "o", "b", "i", "l", "e">>,
     <<"w", "e", "b">>,
     <<"c", "h", "a", "t", "b", "o", "t">>,
     <<"s", "o", "f", "t", "w", "a", "r", "e">>
  >>

KeywordsSupport ==
  <<
     <<"s", "u", "p", "p", "o", "r", "t">>,
     <<"h", "e", "l", "p">>,
     <<"c", "u", "s", "t", "o", "m", "e", "r", " ", "s", "e", "r", "v", "i", "c", "e">>,
     <<"2", "4", "/", "7">>,
     <<"r", "e", "s", "p", "o", "n", "s", "e", " ", "t", "i", "m", "e">>
  >>

KeywordsPrivacy ==
  <<
     <<"p", "r", "i", "v", "a", "c", "y">>,
     <<"d", "a", "t", "a", " ", "p", "r", "o", "t", "e", "c", "t", "i", "o", "n">>,
     <<"G", "D", "P", "R">>,
     <<"s", "e", "c", "u", "r", "i", "t", "y">>,
     <<"e", "n", "c", "r", "y", "p", "t", "i", "o", "n">>
  >>

\* user inputs offered to sendMessage: "hi", "Help", "ok"
UserTexts ==
    { <<"h", "i">>, <<"H", "e", "l", "p">>, <<"o", "k">> }

\* ------------------------------------------------------ string operations
UpperCaseLetters ==
    <<"A", "B", "C", "D", "E", "F", "G", "H", "I", "J", "K", "L", "M",
      "N", "O", "P", "Q", "R", "S", "T", "U", "V", "W", "X", "Y", "Z">>

LowerCaseLetters ==
    <<"a", "b", "c", "d", "e", "f", "g", "h", "i", "j", "k", "l", "m",
      "n", "o", "p", "q", "r", "s", "t", "u", "v", "w", "x", "y", "z">>

toLowerChar(c) ==
    IF \E k \in 1..26 : UpperCaseLetters[k] = c
    THEN LowerCaseLetters[CHOOSE k \in 1..26 : UpperCaseLetters[k] = c]
    ELSE c

\* String.prototype.toLowerCase
toLowerCase(s) == [i \in 1..Len(s) |-> toLowerChar(s[i])]

\* String.prototype.includes
includes(s, sub) ==
    \E i \in 1..(Len(s) - Len(sub) + 1) :
        \A k \in 1..Len(sub) : s[i + k - 1] = sub[k]

\* SQLite's LIKE: % matches any run of characters, _ any one character, and
\* ASCII letters match regardless of case.
RECURSIVE LikeFrom(_, _, _, _)
LikeFrom(pat, i, str, j) ==
    IF i > Len(pat) THEN j > Len(str)
    ELSE IF pat[i] = "%"
         THEN IF i = Len(pat) THEN TRUE
              ELSE \E k \in j..(Len(str) + 1) : LikeFrom(pat, i + 1, str, k)
    ELSE IF j > Len(str) THEN FALSE
    ELSE IF pat[i] = "_" \/ toLowerChar(pat[i]) = toLowerChar(str[j])
         THEN LikeFrom(pat, i + 1, str, j + 1)
    ELSE FALSE

Like(str, pat) == LikeFrom(pat, 1, str, 1)

\* JSON.stringify of an array of strings
JSONchar(c) == IF c \in {"\"", "\\"} THEN <<"\\", c>> ELSE <<c>>

RECURSIVE JSONstring(_)
JSONstring(s) ==
    IF s = <<>> THEN <<>> ELSE JSONchar(Head(s)) \o JSONstring(Tail(s))

RECURSIVE JSONitems(_)
JSONitems(arr) ==
    IF arr = <<>> THEN <<>>
    ELSE <<"\"">> \o JSONstring(Head(arr)) \o <<"\"">>
         \o (IF Len(arr) > 1 THEN <<",">> ELSE <<>>) \o JSONitems(Tail(arr))

JSONstringify(arr) == <<"[">> \o JSONitems(arr) \o <<"]">>

\* JSON.parse of the text of an array of strings: the strings between the
\* unescaped quotes, with the escapes undone
RECURSIVE JSONscan(_, _, _, _, _)
JSONscan(txt, i, inString, cur, acc) ==
    IF i > Len(txt) THEN acc
    ELSE IF ~inString
         THEN JSONscan(txt, i + 1, txt[i] = "\"", <<>>, acc)
    ELSE IF txt[i] = "\\"
         THEN JSONscan(txt, i + 2, TRUE, Append(cur, txt[i + 1]), acc)
    ELSE IF txt[i] = "\""
         THEN JSONscan(txt, i + 1, FALSE, <<>>, Append(acc, cur))
    ELSE JSONscan(txt, i + 1, TRUE, Append(cur, txt[i]), acc)

JSONparse(txt) == JSONscan(txt, 1, FALSE, <<>>, <<>>)

\* Date.prototype.toISOString and new Date(iso): the ISO text of a
\* millisecond instant; SQLite compares these texts, and for the four-digit
\* years of the clock their order is the order of the instants.
toISOString(d) == <<"iso", d>>

DateOf(iso) == iso[2]

\* The orders in which a SELECT ... ORDER BY may return the rows S: every
\* enumeration of S with key nondecreasing (rows with equal keys come in an
\* order SQLite does not define).
RECURSIVE SortedSeqs(_, _)
SortedSeqs(S, key) ==
    IF S = {} THEN { <<>> }
    ELSE LET m == CHOOSE v \in {key[x] : x \in S} : \A x \in S : v <= key[x]
         IN  UNION { { <<x>> \o rest : rest \in SortedSeqs(S \ {x}, key) } :
                     x \in {y \in S : key[y] = m} }

\* ------------------------------------------------------------ Record Store
\* company_data after loadSampleData: the four sample records, written in
\* one synchronous run and therefore with one timestamp
SampleRow(id, title, content, category, keywords) ==
    [id |-> id, title |-> title, content |-> content, category |-> category,
     keywords |-> JSONstringify(keywords),
     created_at |-> toISOString(0), updated_at |-> toISOString(0)]

company_data ==
    { SampleRow(1, TitleOverview, ContentOverview, "company-info", KeywordsOverview),
      SampleRow(2, TitleCatalog, ContentCatalog, "products", KeywordsCatalog),
      SampleRow(3, TitleSupport, ContentSupport, "support", KeywordsSupport),
      SampleRow(4, TitlePrivacy, ContentPrivacy, "legal", KeywordsPrivacy) }

\* LIMIT 10 of the search query
SearchLimit == 10

\* WHERE title LIKE ? OR content LIKE ? OR keywords LIKE ?, with ? = %query%
SearchMatches(row, query) ==
    LET searchTerm == <<"%">> \o query \o <<"%">>
    IN  \/ Like(row.title, searchTerm)
        \/ Like(row.content, searchTerm)
        \/ Like(row.keywords, searchTerm)

\* a row of company_data as the DatabaseRecord the search returns
DatabaseRecord(row) ==
    [id |-> row.id, title |-> row.title, content |-> row.content,
     category |-> row.category, keywords |-> JSONparse(row.keywords),
     createdAt |-> row.created_at, updatedAt |-> row.updated_at]

Take(s, n) == SubSeq(s, 1, IF Len(s) < n THEN Len(s) ELSE n)

\* the results searchCompanyData may return: the matching rows, ORDER BY
\* updated_at DESC, LIMIT 10
searchCompanyData(query) ==
    LET hits == {row \in company_data : SearchMatches(row, query)}
        desc == [row \in hits |-> 0 - DateOf(row.updated_at)]
    IN  { [i \in 1..Len(Take(rows, SearchLimit)) |-> DatabaseRecord(rows[i])] :
          rows \in SortedSeqs(hits, desc) }

\* ------------------------------------------------------- Remote Responder
\* what NetInfo.fetch may report as isConnected: true, false, null
NetInfoStates == {"true", "false", "null"}

\* seeded fault: an unknown connectivity (null) counts as connected
checkNetworkConnectionLoose(isConnected) == isConnected # "false"

\* netInfo.isConnected ?? false
checkNetworkConnection(isConnected) == isConnected = "true"

\* no ChatBotResponse: response not yet built, or a response body that is
\* empty (a falsy apiResponse.data)
NoResponse ==
    [text |-> <<>>, confidence |-> 0, source |-> "none", relatedTopics |-> <<>>]

\* the answer of the remote chatbot endpoint: "Remote"
RemotePayload ==
    [text |-> <<"R", "e", "m", "o", "t", "e">>, confidence |-> 7,
     source |-> "api", relatedTopics |-> <<>>]

\* how axios.post may end: a 2xx answer with a body or with an empty body, an
\* error status, no answer (network error or the timeout), a failed request
AxiosOutcomes ==
    { [kind |-> "ok", data |-> RemotePayload],
      [kind |-> "ok", data |-> NoResponse],
      [kind |-> "response", data |-> NoResponse],
      [kind |-> "request", data |-> NoResponse],
      [kind |-> "other", data |-> NoResponse] }

\* an ApiResponse: success and data; its error and message texts are read by
\* no caller of getChatbotResponse
NoApiResponse == [success |-> FALSE, data |-> NoResponse]

\* the ApiResponse when the connectivity precheck fails
NoConnection == [success |-> FALSE, data |-> NoResponse]

\* handleApiError: an unsuccessful ApiResponse in each of its three branches
handleApiError(outcome) ==
    IF outcome.kind = "response"
    THEN [success |-> FALSE, data |-> NoResponse]
    ELSE IF outcome.kind = "request"
    THEN [success |-> FALSE, data |-> NoResponse]
    ELSE [success |-> FALSE, data |-> NoResponse]

\* the ApiResponse of getChatbotResponse once axios.post has ended
getChatbotResponse(outcome) ==
    IF outcome.kind = "ok"
    THEN [success |-> TRUE, data |-> outcome.data]
    ELSE handleApiError(outcome)

\* seeded fault: "help" is tested before "hello" and "hi"
generateMockResponseHelpFirst(message) ==
    LET lowercaseMessage == toLowerCase(message)
    IN  IF includes(lowercaseMessage, <<"h", "e", "l", "p">>)
        THEN [text |-> HelpText, confidence |-> 8, source |-> "default",
              relatedTopics |-> HelpTopics]
        ELSE IF \/ includes(lowercaseMessage, <<"h", "e", "l", "l", "o">>)
                \/ includes(lowercaseMessage, <<"h", "i">>)
        THEN [text |-> GreetingText, confidence |-> 9, source |-> "default",
              relatedTopics |-> GreetingTopics]
        ELSE IF includes(lowercaseMessage, <<"t", "h", "a", "n", "k">>)
        THEN [text |-> ThanksText, confidence |-> 9, source |-> "default",
              relatedTopics |-> ThanksTopics]
        ELSE [text |-> EchoPrefix \o message \o EchoSuffix, confidence |-> 5,
              source |-> "default",
              relatedTopics |-> EchoTopics]

\* confidences are in tenths: 9 is 0.9
generateMockResponse(message) ==
    LET lowercaseMessage == toLowerCase(message)
    IN  IF \/ includes(lowercaseMessage, <<"h", "e", "l", "l", "o">>)
           \/ includes(lowercaseMessage, <<"h", "i">>)
        THEN [text |-> GreetingText, confidence |-> 9, source |-> "default",
              relatedTopics |-> GreetingTopics]
        ELSE IF includes(lowercaseMessage, <<"h", "e", "l", "p">>)
        THEN [text |-> HelpText, confidence |-> 8, source |-> "default",
              relatedTopics |-> HelpTopics]
        ELSE IF includes(lowercaseMessage, <<"t", "h", "a", "n", "k">>)
        THEN [text |-> ThanksText, confidence |-> 9, source |-> "default",
              relatedTopics |-> ThanksTopics]
        ELSE [text |-> EchoPrefix \o message \o EchoSuffix, confidence |-> 5,
              source |-> "default",
              relatedTopics |-> EchoTopics]

\* ------------------------------------------------------ Response Resolver
\* seeded fault: the reply carries the title of the match instead of its content
LocalReplyTitle(bestMatch) ==
    [text |-> bestMatch.title, confidence |-> 8, source |-> "database",
     relatedTopics |-> bestMatch.keywords]

\* the reply built from the best local match
LocalReply(bestMatch) ==
    [text |-> bestMatch.content, confidence |-> 8, source |-> "database",
     relatedTopics |-> bestMatch.keywords]

\* seeded fault: the payload of a successful call is used without looking at it
RemoteReplyUnchecked(apiResponse, userMessage) ==
    IF apiResponse.success
    THEN apiResponse.data
    ELSE generateMockResponse(userMessage)

\* the reply when the local search found nothing
RemoteOrMockReply(apiResponse, userMessage) ==
    IF apiResponse.success /\ apiResponse.data # NoResponse
    THEN apiResponse.data
    ELSE generateMockResponse(userMessage)

\* seeded fault: a generation is scheduled for an assistant turn too
ShouldScheduleAnyTurn(isUser, processing) == ~processing

\* sendMessage schedules a generation for a user turn while none is running
ShouldSchedule(isUser, processing) == isUser /\ ~processing

\* seeded fault: generateResponse without its guard
GuardNeverBlocks(processing) == FALSE

\* generateResponse returns at once while a generation is running
GuardBlocks(processing) == processing

\* ------------------------------------------------------------------ state
VARIABLES
    currentSession,  \* ChatBotService.currentSession: a reference into heap, 0 for null
    isProcessing,    \* ChatBotService.isProcessing, the in-flight flag
    heap,            \* the ChatSession objects in memory, by reference
    chat_sessions,   \* table chat_sessions: id -> row
    messages,        \* table messages: id -> row
    procs,           \* the suspended async calls: pid -> frame
    dbQueue,         \* pids whose SQL statement is submitted, in submission order
    timers,          \* pending setTimeout(() => generateResponse(text), 500), in order
    clock,           \* the last value read from the millisecond clock
    nextCall,        \* number of the next sendMessage invocation (its message id)
    nextSession,     \* the next fresh session identifier
    calls,           \* the calls the UI has made, by operation
    failures,        \* SQL statements rejected so far
    replyTo,         \* history: assistant message id -> the user call it answers
    returned,        \* history: the sendMessage(text, true) calls from outside that returned
    busyAtSend,      \* history: user calls that found a generation running at line 123
    generated,       \* history: user calls whose generateResponse passed its guard
    threw,           \* history: user calls whose generation had its local search throw
    lastReturn,      \* history: how the last call made from outside ended
    probe,           \* a pure function called from outside: its input and its output
    inputText,       \* ChatScreen's inputText
    voice,           \* VoiceService, the native recognizer and the voice calls
    random,          \* what Math.random() returns for the next message id
    database         \* DatabaseService.database: TRUE while the database is open

vars ==
    <<currentSession, isProcessing, heap, chat_sessions, messages, procs, dbQueue,
      timers, clock, nextCall, nextSession, calls, failures, replyTo, returned,
      busyAtSend, generated, threw, lastReturn, probe, inputText, voice, random,
      database>>

NoMessage == [id |-> 0, text |-> <<>>, isUser |-> FALSE, timestamp |-> 0]

NoMessageRow ==
    [id |-> 0, session_id |-> 0, text |-> <<>>, is_user |-> 0,
     timestamp |-> toISOString(0)]

NoSessionRow ==
    [id |-> 0, created_at |-> toISOString(0), updated_at |-> toISOString(0)]

\* the frame of an async call: its position (pc) and its locals
Frame(kind) ==
    [kind |-> kind, pc |-> "start",
     \* sendMessage(text, isUser): its number, arguments and message
     call |-> 0, text |-> <<>>, isUser |-> FALSE, message |-> NoMessage,
     \* history: the session this sendMessage created at line 105, 0 for none
     created |-> 0,
     \* history: the session on which this sendMessage pushed its message
     appended |-> 0,
     \* whether ChatScreen.sendMessage awaits this call
     screen |-> FALSE,
     \* saveChatSession(session): the session, the loop index, the SQL arguments
     session |-> 0, i |-> 0, messageRow |-> NoMessageRow, sessionRow |-> NoSessionRow,
     \* history: the last message of the session when saveChatSession read its
     \* updatedAt, 0 for an empty session
     carries |-> 0,
     \* generateResponse(userMessage)
     userMessage |-> <<>>, forCall |-> 0, phase |-> "none", localResults |-> <<>>,
     apiResponse |-> NoApiResponse, response |-> NoResponse,
     isConnected |-> "unset", apiCalled |-> FALSE,
     \* history: the axios.post calls of this generation
     apiCalls |-> 0,
     \* loadSession(sessionId)
     sessionId |-> 0, rows |-> <<>>, sessions |-> <<>>]

\* the state as one record, so that the runs of code below compose
State ==
    [currentSession |-> currentSession, isProcessing |-> isProcessing, heap |-> heap,
     chat_sessions |-> chat_sessions, messages |-> messages, procs |-> procs,
     dbQueue |-> dbQueue, timers |-> timers, clock |-> clock, nextCall |-> nextCall,
     nextSession |-> nextSession, calls |-> calls, failures |-> failures,
     replyTo |-> replyTo, returned |-> returned, busyAtSend |-> busyAtSend,
     generated |-> generated, threw |-> threw, lastReturn |-> lastReturn,
     probe |-> probe, inputText |-> inputText, voice |-> voice,
     random |-> random, database |-> database]

Becomes(s) ==
    /\ currentSession' = s.currentSession
    /\ isProcessing' = s.isProcessing
    /\ heap' = s.heap
    /\ chat_sessions' = s.chat_sessions
    /\ messages' = s.messages
    /\ procs' = s.procs
    /\ dbQueue' = s.dbQueue
    /\ timers' = s.timers
    /\ clock' = s.clock
    /\ nextCall' = s.nextCall
    /\ nextSession' = s.nextSession
    /\ calls' = s.calls
    /\ failures' = s.failures
    /\ replyTo' = s.replyTo
    /\ returned' = s.returned
    /\ busyAtSend' = s.busyAtSend
    /\ generated' = s.generated
    /\ threw' = s.threw
    /\ lastReturn' = s.lastReturn
    /\ probe' = s.probe
    /\ inputText' = s.inputText
    /\ voice' = s.voice
    /\ random' = s.random
    /\ database' = s.database

Put(f, k, v) == [x \in DOMAIN f \cup {k} |-> IF x = k THEN v ELSE f[x]]

Drop(f, k) == [x \in DOMAIN f \ {k} |-> f[x]]

FreshPid(s) == CHOOSE n \in 1..(Cardinality(DOMAIN s.procs) + 1) : n \notin DOMAIN s.procs

\* the two clock readings of one run of code: new Date() of the message (or
\* of the new session), then new Date() of updatedAt
Times == {t \in (clock..MaxClock) \X (clock..MaxClock) : t[1] <= t[2]}

\* the call ends: its frame is gone
Finish(s, p) == [s EXCEPT !.procs = Drop(@, p)]

\* what a call made from outside gives its caller: op is the operation,
\* outcome is "value", "null", "void", "invalid" or "rejected", value the
\* Message id or the ChatSession reference, arg the argument, failed whether a
\* rejected SQL statement ended the call
NoReturn ==
    [op |-> "none", outcome |-> "none", value |-> 0, arg |-> 0, failed |-> FALSE]

Result(op, outcome, value, arg, failed) ==
    [op |-> op, outcome |-> outcome, value |-> value, arg |-> arg, failed |-> failed]

\* an async call made from outside settles its promise
Return(s, p, result) == Finish([s EXCEPT !.lastReturn = result], p)

\* no pure function has been called
NoProbe == [fn |-> "none", input |-> <<>>, output |-> <<>>]

\* if (!this.database) throw new Error('Database not initialized'), then
\* await this.database.executeSql(...): the statement is queued, or the call
\* is left by the error ("throw"), which its caller meets when it resumes
Submit(s, p, pc) ==
    IF s.database
    THEN [s EXCEPT !.procs[p].pc = pc, !.dbQueue = Append(@, p)]
    ELSE [s EXCEPT !.procs[p].pc = "throw"]

\* ---------------------------------------------------------- Session Manager
\* DatabaseService.saveMessage up to its executeSql
saveMessage(s, p, sessionId, message, pc) ==
    Submit([s EXCEPT !.procs[p].messageRow =
                [id |-> message.id, session_id |-> sessionId, text |-> message.text,
                 is_user |-> IF message.isUser THEN 1 ELSE 0,
                 timestamp |-> toISOString(message.timestamp)]],
           p, pc)

\* DatabaseService.saveChatSession up to the executeSql of the session row;
\* caller is "create" (createNewSession) or "send" (sendMessage)
saveChatSession(s, p, ref, caller) ==
    Submit([s EXCEPT !.procs[p].session = ref,
                     !.procs[p].carries =
                         IF s.heap[ref].messages = <<>> THEN 0
                         ELSE s.heap[ref].messages[Len(s.heap[ref].messages)].id,
                     !.procs[p].sessionRow =
                         [id |-> s.heap[ref].id,
                          created_at |-> toISOString(s.heap[ref].createdAt),
                          updated_at |-> toISOString(s.heap[ref].updatedAt)]],
           p, IF caller = "create" THEN "create_row" ELSE "send_row")

\* seeded fault: the new session is persisted but not made the active one
createNewSessionDetached(s, p, now) ==
    LET ref == Len(s.heap) + 1
        session == [id |-> s.nextSession, messages |-> <<>>,
                    createdAt |-> now, updatedAt |-> now]
    IN  saveChatSession([s EXCEPT !.heap = Append(@, session),
                                  !.nextSession = @ + 1,
                                  !.clock = now],
                        p, ref, "create")

\* createNewSession up to its await
createNewSession(s, p, now) ==
    LET ref == Len(s.heap) + 1
        session == [id |-> s.nextSession, messages |-> <<>>,
                    createdAt |-> now, updatedAt |-> now]
    IN  saveChatSession([s EXCEPT !.heap = Append(@, session),
                                  !.currentSession = ref,
                                  !.nextSession = @ + 1,
                                  !.clock = now],
                        p, ref, "create")

\* sendMessage at its entry: the arguments of this invocation
sendMessageEnter(s, p, text, isUser) ==
    [s EXCEPT !.procs[p].call = s.nextCall,
              !.procs[p].text = text,
              !.procs[p].isUser = isUser,
              !.procs[p].message = NoMessage,
              !.procs[p].created = 0,
              !.nextCall = @ + 1]

\* sendMessage, line 105: no active session, createNewSession() is awaited
sendMessageCreate(s, p, now) ==
    [createNewSession(s, p, now) EXCEPT !.procs[p].created = Len(s.heap) + 1]

\* seeded fault: the generation ends without clearing the in-flight flag
generateResponseReturns(s, p) == Finish(s, p)

\* generateResponse: finally
generateResponseFinally(s, p) == Finish([s EXCEPT !.isProcessing = FALSE], p)

\* sendMessage, line 116, when the active session was cleared while
\* createNewSession was awaited: this.currentSession is null and the push
\* throws a TypeError, which leaves sendMessage; inside generateResponse it is
\* caught at line 164, where sendMessage(apology, false) finds no active
\* session and creates one
sendMessageTypeError(s, p, t) ==
    LET f == s.procs[p]
    IN  IF f.kind = "gen"
        THEN IF f.phase = "try"
             THEN sendMessageCreate(
                      sendMessageEnter([s EXCEPT !.procs[p].phase = "catch"],
                                       p, ApologyText, FALSE),
                      p, t[1])
             ELSE generateResponseFinally(s, p)
        ELSE Return(s, p, Result("sendMessage", "rejected", 0, 0, FALSE))

\* Math.random() as the next message id reads it: value 0 is a number never
\* returned before, value k the number returned for the id of sendMessage
\* call k; repeats counts the times a number came back
FreshRandom == [value |-> 0, repeats |-> 0]

\* the messages of the sessions in memory
Held(s) ==
    UNION {{s.heap[r].messages[k] : k \in 1..Len(s.heap[r].messages)} :
              r \in 1..Len(s.heap)}

\* sendMessage, line 108: `msg_${Date.now()}_${Math.random()...}`.  An id is
\* written as the number of the first sendMessage call that produced it: the
\* id of this call is that of call k when Math.random returns what it
\* returned for call k and Date.now() is the same millisecond
messageId(s, call, now) ==
    IF \E m \in Held(s) : m.id = s.random.value /\ m.timestamp = now
    THEN s.random.value
    ELSE call

\* sendMessage, lines 108 to 119: the message is built, pushed on the active
\* session, updatedAt is bumped and saveMessage is awaited
sendMessageAppend(s, p, t) ==
    LET f == s.procs[p]
        ref == s.currentSession
        message == [id |-> messageId(s, f.call, t[1]), text |-> f.text,
                    isUser |-> f.isUser, timestamp |-> t[1]]
    IN  IF ref = 0
        THEN sendMessageTypeError(s, p, t)
        ELSE saveMessage([s EXCEPT !.heap[ref].messages = Append(@, message),
                                   !.heap[ref].updatedAt = t[2],
                                   !.clock = t[2],
                                   !.procs[p].message = message,
                                   !.procs[p].appended = ref,
                                   !.random.value = 0,
                                   !.replyTo = IF f.kind = "gen"
                                               THEN Put(@, message.id, f.forCall)
                                               ELSE @],
                         p, s.heap[ref].id, message, "send_msg")

\* seeded fault: sendMessage creates a session whether or not one is active
sendMessageAlwaysCreates(s, p, text, isUser, t) ==
    sendMessageCreate(sendMessageEnter(s, p, text, isUser), p, t[1])

\* sendMessage from its entry to its first await
sendMessage(s, p, text, isUser, t) ==
    LET s1 == sendMessageEnter(s, p, text, isUser)
    IN  IF s.currentSession = 0
        THEN sendMessageCreate(s1, p, t[1])
        ELSE sendMessageAppend(s1, p, t)

\* seeded fault: the catch appends nothing
generateResponseCatchSilent(s, p, t) == generateResponseFinally(s, p)

\* generateResponse: catch
generateResponseCatch(s, p, t) ==
    sendMessage([s EXCEPT !.procs[p].phase = "catch"], p, ApologyText, FALSE, t)

\* sendMessage, lines 122 to 127: the generation is scheduled and the message
\* returned
sendMessageReturn(s, p) ==
    LET f == s.procs[p]
        s1 == [s EXCEPT
                 !.timers = IF ShouldSchedule(f.isUser, s.isProcessing)
                            THEN Append(@, [userMessage |-> f.text, call |-> f.call])
                            ELSE @,
                 !.busyAtSend = IF f.isUser /\ s.isProcessing
                                THEN @ \cup {f.call} ELSE @]
    IN  IF f.kind = "gen"
        THEN generateResponseFinally(s1, p)
        ELSE Return([s1 EXCEPT !.returned = IF f.isUser THEN @ \cup {f.call} ELSE @,
                               !.inputText = IF f.screen THEN <<>> ELSE @],
                    p, Result("sendMessage", "value", f.message.id, 0, FALSE))

\* createNewSession returns: to the UI, or into sendMessage at line 108
createNewSessionReturn(s, p, t) ==
    IF s.procs[p].kind = "create"
    THEN Return(s, p, Result("createNewSession", "value", s.currentSession, 0, FALSE))
    ELSE sendMessageAppend(s, p, t)

\* saveChatSession, lines 136 to 138: the loop over session.messages, from
\* index i
saveChatSessionLoop(s, p, i, t) ==
    LET f == s.procs[p]
        session == s.heap[f.session]
        caller == IF f.pc \in {"create_row", "create_loop"} THEN "create" ELSE "send"
    IN  IF i <= Len(session.messages)
        THEN saveMessage([s EXCEPT !.procs[p].i = i], p, session.id,
                         session.messages[i],
                         IF caller = "create" THEN "create_loop" ELSE "send_loop")
        ELSE IF caller = "create"
        THEN createNewSessionReturn(s, p, t)
        ELSE sendMessageReturn(s, p)

\* ------------------------------------------------------------ VoiceService
\* The recognizer of @react-native-voice/voice is one native object: phase is
\* "idle", "listening" (a listen session is active) or "finishing" (the
\* session was stopped or speech ended, its last events may still arrive);
\* owner is the handleVoiceInput call whose Voice.start began the session.
NoRecognizer == [owner |-> 0, phase |-> "idle"]

\* this.onSpeechError is, after construction, the handler of line 324 itself
\* (one property holds the callback and the handler): Handler stands for it
Handler == -1

\* VoiceService after construction, no call made.  listens: the running
\* startListening calls by handleVoiceInput call, each at "permission" (line
\* 363), "stop" (line 370) or "start" (line 376); stopping: the stopListening
\* calls of stopVoiceInput that wait at line 388; promise: the promise of each
\* handleVoiceInput call; stops: the stopVoiceInput calls made
NoVoice ==
    [isListening |-> FALSE, onSpeechResult |-> 0, onSpeechError |-> Handler,
     recognizer |-> NoRecognizer,
     listens |-> [h \in {} |-> "none"],
     stopping |-> 0, promise |-> <<>>, stops |-> 0]

\* resolve(text) of the promise of handleVoiceInput call h: a settled promise
\* stays as it is
resolve(v, h) ==
    IF h \in 1..Len(v.promise) /\ v.promise[h] = "pending"
    THEN [v EXCEPT !.promise[h] = "resolved"] ELSE v

\* reject(new Error(error)) of the promise of handleVoiceInput call h
reject(v, h) ==
    IF h \in 1..Len(v.promise) /\ v.promise[h] = "pending"
    THEN [v EXCEPT !.promise[h] = "rejected"] ELSE v

\* Voice.start('en-US') reaches the recognizer: a listen session of h begins
VoiceStart(v, h) == [v EXCEPT !.recognizer = [owner |-> h, phase |-> "listening"]]

\* Voice.stop() reaches the recognizer: an active session stops listening
VoiceStop(v) ==
    IF v.recognizer.phase = "listening"
    THEN [v EXCEPT !.recognizer.phase = "finishing"] ELSE v

\* Voice.destroy() reaches the recognizer
VoiceDestroy(v) == [v EXCEPT !.recognizer = NoRecognizer]

\* startListening, lines 358-363: requestMicrophonePermission is awaited
startListening(v, h) == [v EXCEPT !.listens = Put(@, h, "permission")]

\* startListening, lines 373-376: the callbacks are stored and Voice.start is
\* called and awaited
startListeningStart(v, h) ==
    LET w == [v EXCEPT !.onSpeechResult = h, !.onSpeechError = h]
    IN  [VoiceStart(w, h) EXCEPT !.listens[h] = "start"]

\* startListening, lines 364-371, resumed with the permission's answer
startListeningPermission(v, h, granted) ==
    IF ~granted
    THEN [reject(v, h) EXCEPT !.listens = Drop(@, h)]
    ELSE IF v.isListening
         THEN [VoiceStop(v) EXCEPT !.listens[h] = "stop"]
         ELSE startListeningStart(v, h)

\* stopListening, lines 389-392, resumed when Voice.stop settles: a rejection
\* is logged and isListening keeps its value
stopListeningStopped(v, ok) == IF ok THEN [v EXCEPT !.isListening = FALSE] ELSE v

\* startListening, lines 377-383, resumed when Voice.start settles
startListeningStarted(v, h, ok) ==
    IF ok
    THEN [v EXCEPT !.isListening = TRUE, !.listens = Drop(@, h)]
    ELSE [reject(v, h) EXCEPT !.listens = Drop(@, h)]

\* handleVoiceInput, lines 175-188
handleVoiceInput(v) ==
    LET h == Len(v.promise) + 1
    IN  startListening([v EXCEPT !.promise = Append(@, "pending")], h)

\* onSpeechResults, lines 317-322: text is event.value?.[0] || ''
onSpeechResults(v, text) ==
    IF text # <<>> /\ v.onSpeechResult # 0 THEN resolve(v, v.onSpeechResult) ELSE v

\* onSpeechError, lines 324-329: before any startListening stored a callback
\* the property is the handler itself, which then calls itself until the
\* stack overflows and changes nothing
onSpeechError(v) ==
    IF v.onSpeechError = Handler THEN v ELSE reject(v, v.onSpeechError)

\* onSpeechEnd, lines 331-334
onSpeechEnd(v) == [v EXCEPT !.isListening = FALSE]

\* the recognized texts: nothing recognized, or some words
SpokenTexts == {<<>>, <<"h", "i">>}

\* ------------------------------------------------------ the voice actions
\* the UI calls handleVoiceInput()
HandleVoiceInput ==
    /\ Len(voice.promise) < MaxListens
    /\ Becomes([State EXCEPT !.voice = handleVoiceInput(@)])

\* requestMicrophonePermission settles (lines 336-356); a failed request is
\* answered false like a denied one
PermissionEnds ==
    \E h \in DOMAIN voice.listens, granted \in BOOLEAN :
       /\ voice.listens[h] = "permission"
       /\ Becomes([State EXCEPT !.voice = startListeningPermission(@, h, granted)])

\* the Voice.stop awaited by stopListening inside startListening settles, and
\* startListening goes on at line 373
VoiceStopEnds ==
    \E h \in DOMAIN voice.listens, ok \in BOOLEAN :
       /\ voice.listens[h] = "stop"
       /\ Becomes([State EXCEPT
              !.voice = startListeningStart(stopListeningStopped(@, ok), h)])

\* the Voice.start awaited by startListening settles
VoiceStartEnds ==
    \E h \in DOMAIN voice.listens, ok \in BOOLEAN :
       /\ voice.listens[h] = "start"
       /\ Becomes([State EXCEPT !.voice = startListeningStarted(@, h, ok)])

\* the UI calls stopVoiceInput(): stopListening calls Voice.stop and awaits it
StopVoiceInput ==
    /\ voice.stops < MaxStops
    /\ Becomes([State EXCEPT
           !.voice = [VoiceStop(@) EXCEPT !.stopping = @ + 1, !.stops = @ + 1]])

\* the Voice.stop awaited by the stopListening of stopVoiceInput settles
StopVoiceInputEnds ==
    /\ voice.stopping > 0
    /\ \E ok \in BOOLEAN :
         Becomes([State EXCEPT
             !.voice = [stopListeningStopped(@, ok) EXCEPT !.stopping = @ - 1]])

\* the recognizer reports the end of speech: the session stops listening
SpeechEnd ==
    /\ voice.recognizer.phase = "listening"
    /\ Becomes([State EXCEPT
           !.voice = [onSpeechEnd(@) EXCEPT !.recognizer.phase = "finishing"]])

\* the recognizer reports its results, and the session is over
SpeechResults ==
    /\ voice.recognizer.phase # "idle"
    /\ \E text \in SpokenTexts :
         Becomes([State EXCEPT
             !.voice = [onSpeechResults(@, text) EXCEPT !.recognizer = NoRecognizer]])

\* the recognizer reports an error, and the session is over
SpeechError ==
    /\ voice.recognizer.phase # "idle"
    /\ Becomes([State EXCEPT
           !.voice = [onSpeechError(@) EXCEPT !.recognizer = NoRecognizer]])

\* getChatSessions: the orders in which SELECT * FROM chat_sessions ORDER BY
\* updated_at DESC may return the rows
getChatSessions(s) ==
    LET rows == {s.chat_sessions[id] : id \in DOMAIN s.chat_sessions}
    IN  SortedSeqs(rows, [row \in rows |-> 0 - DateOf(row.updated_at)])

\* a row of messages as the Message getSessionMessages returns
MessageOf(row) ==
    [id |-> row.id, text |-> row.text, isUser |-> (row.is_user = 1),
     timestamp |-> DateOf(row.timestamp)]

\* getSessionMessages: the results SELECT * FROM messages WHERE session_id = ?
\* ORDER BY timestamp ASC may give
getSessionMessages(s, sessionId) ==
    LET rows == {s.messages[id] : id \in {m \in DOMAIN s.messages :
                                           s.messages[m].session_id = sessionId}}
    IN  { [k \in 1..Len(sorted) |-> MessageOf(sorted[k])] :
          sorted \in SortedSeqs(rows, [row \in rows |-> DateOf(row.timestamp)]) }

\* seeded fault: a miss clears the active session
loadSessionFindClears(s, p) ==
    LET f == s.procs[p]
        hits == {k \in 1..Len(f.sessions) : f.sessions[k].id = f.sessionId}
    IN  IF hits # {}
        THEN LET session == f.sessions[CHOOSE k \in hits : \A j \in hits : k <= j]
             IN  Return([s EXCEPT !.heap = Append(@, session),
                                  !.currentSession = Len(s.heap) + 1],
                        p, Result("loadSession", "value", Len(s.heap) + 1,
                                  f.sessionId, FALSE))
        ELSE Return([s EXCEPT !.currentSession = 0],
                    p, Result("loadSession", "null", 0, f.sessionId, FALSE))

\* loadSession, lines 91 to 96: sessions.find and the replacement of the
\* active session
loadSessionFind(s, p) ==
    LET f == s.procs[p]
        hits == {k \in 1..Len(f.sessions) : f.sessions[k].id = f.sessionId}
    IN  IF hits # {}
        THEN LET session == f.sessions[CHOOSE k \in hits : \A j \in hits : k <= j]
             IN  Return([s EXCEPT !.heap = Append(@, session),
                                  !.currentSession = Len(s.heap) + 1],
                        p, Result("loadSession", "value", Len(s.heap) + 1,
                                  f.sessionId, FALSE))
        ELSE Return(s, p, Result("loadSession", "null", 0, f.sessionId, FALSE))

\* getChatSessions, lines 167 to 178: the loop over the session rows, from
\* index i
getChatSessionsLoop(s, p, i) ==
    IF i <= Len(s.procs[p].rows)
    THEN Submit([s EXCEPT !.procs[p].i = i], p, "getMessages")
    ELSE loadSessionFind(s, p)

\* generateResponse, line 162: the reply is sent
generateResponseSend(s, p, response, t) ==
    sendMessage([s EXCEPT !.procs[p].response = response], p, response.text, FALSE, t)

\* generateResponse, lines 140 to 159, once the local results are known
generateResponseLocal(s, p, localResults, t) ==
    LET s1 == [s EXCEPT !.procs[p].localResults = localResults]
    IN  IF Len(localResults) > 0
        THEN generateResponseSend(s1, p, LocalReply(localResults[1]), t)
        ELSE [s1 EXCEPT !.procs[p].pc = "netinfo"]

\* generateResponse, lines 153 to 158, once getChatbotResponse has returned
generateResponseRemote(s, p, apiResponse, t) ==
    generateResponseSend([s EXCEPT !.procs[p].apiResponse = apiResponse], p,
                         RemoteOrMockReply(apiResponse, s.procs[p].userMessage), t)

\* generateResponse from its entry; timer is the scheduled callback
generateResponse(s, timer) ==
    IF GuardBlocks(s.isProcessing)
    THEN s
    ELSE LET p == FreshPid(s)
             f == [Frame("gen") EXCEPT !.userMessage = timer.userMessage,
                                       !.forCall = timer.call, !.phase = "try"]
         IN  Submit([s EXCEPT !.procs = Put(@, p, f),
                              !.isProcessing = TRUE,
                              !.generated = @ \cup {timer.call}],
                    p, "search")

\* an error leaves the awaited call of frame p: inside generateResponse it
\* reaches the catch of line 164, or from the catch the finally; loadSession
\* catches it at line 97 and returns null; createNewSession and sendMessage
\* let it out to their caller; cleanup logs it at line 278 and returns.
\* failed tells a rejected SQL statement from a
\* TypeError
Raise(s, p, t, failed) ==
    LET f == s.procs[p]
    IN  IF f.kind = "gen"
        THEN IF f.phase = "try"
             THEN generateResponseCatch(s, p, t)
             ELSE generateResponseFinally(s, p)
        ELSE IF f.kind = "load"
        THEN Return(s, p, Result("loadSession", "null", 0, f.sessionId, failed))
        ELSE IF f.kind = "cleanup"
        THEN Return(s, p, Result("cleanup", "void", 0, 0, failed))
        ELSE IF f.kind = "create"
        THEN Return(s, p, Result("createNewSession", "rejected", 0, 0, failed))
        ELSE Return(s, p, Result("sendMessage", "rejected", 0, 0, failed))

\* seeded fault: a search that throws counts as a search that found nothing
ThrowAsNoResults(s, p, t) ==
    IF s.procs[p].kind = "gen" /\ s.procs[p].pc = "search"
    THEN generateResponseLocal(s, p, <<>>, t)
    ELSE Raise(s, p, t, TRUE)

\* a rejected statement: the error leaves saveMessage, saveChatSession,
\* getChatSessions and searchCompanyData, none of which catches it
Throw(s, p, t) == Raise(s, p, t, TRUE)

\* ------------------------------------------------------------------ actions
Init ==
    /\ currentSession = 0
    /\ isProcessing = FALSE
    /\ heap = <<>>
    /\ chat_sessions = [id \in {} |-> NoSessionRow]
    /\ messages = [id \in {} |-> NoMessageRow]
    /\ procs = [p \in {} |-> Frame("none")]
    /\ dbQueue = <<>>
    /\ timers = <<>>
    /\ clock = 0
    /\ nextCall = 1
    /\ nextSession = 1
    /\ calls = [send |-> 0, create |-> 0, load |-> 0, delete |-> 0, welcome |-> 0,
                screen |-> 0, cleanup |-> 0]
    /\ failures = 0
    /\ replyTo = [m \in {} |-> 0]
    /\ returned = {}
    /\ busyAtSend = {}
    /\ generated = {}
    /\ threw = {}
    /\ lastReturn = NoReturn
    /\ probe = NoProbe
    /\ inputText = <<>>
    /\ voice = NoVoice
    /\ random = FreshRandom
    /\ database = TRUE

\* the UI calls sendMessage(text, true)
SendMessage ==
    /\ calls.send < MaxSends
    /\ \E text \in UserTexts, t \in Times :
         LET p == FreshPid(State)
         IN  Becomes(sendMessage([State EXCEPT !.procs = Put(@, p, Frame("send")),
                                               !.calls.send = @ + 1],
                                 p, text, TRUE, t))

\* the UI calls createNewSession()
CreateNewSession ==
    /\ calls.create < MaxCreates
    /\ \E now \in clock..MaxClock :
         LET p == FreshPid(State)
         IN  Becomes(createNewSession([State EXCEPT !.procs = Put(@, p, Frame("create")),
                                                    !.calls.create = @ + 1],
                                      p, now))

\* the UI calls loadSession(sessionId), with a known or an unknown identifier
LoadSession ==
    /\ calls.load < MaxLoads
    /\ \E sessionId \in 1..nextSession :
         LET p == FreshPid(State)
             f == [Frame("load") EXCEPT !.sessionId = sessionId]
         IN  Becomes(Submit([State EXCEPT !.procs = Put(@, p, f),
                                          !.calls.load = @ + 1],
                            p, "getSessions"))

\* the oldest generation timer fires
TimerFires ==
    /\ timers # <<>>
    /\ Becomes(generateResponse([State EXCEPT !.timers = Tail(@)], Head(timers)))

\* the store runs the oldest queued statement: an INSERT OR REPLACE INTO
\* messages
DbSaveMessage ==
    /\ dbQueue # <<>>
    /\ database
    /\ procs[Head(dbQueue)].pc \in {"send_msg", "send_loop", "create_loop"}
    /\ \E t \in Times :
         LET p == Head(dbQueue)
             f == procs[p]
             s == [State EXCEPT !.dbQueue = Tail(@),
                                !.messages = Put(@, f.messageRow.id, f.messageRow)]
         IN  Becomes(IF f.pc = "send_msg"
                     THEN IF s.currentSession = 0
                          THEN Raise(s, p, t, FALSE)
                          ELSE saveChatSession(s, p, s.currentSession, "send")
                     ELSE saveChatSessionLoop(s, p, f.i + 1, t))

\* ... an INSERT OR REPLACE INTO chat_sessions
DbSaveSession ==
    /\ dbQueue # <<>>
    /\ database
    /\ procs[Head(dbQueue)].pc \in {"send_row", "create_row"}
    /\ \E t \in Times :
         LET p == Head(dbQueue)
             f == procs[p]
             s == [State EXCEPT !.dbQueue = Tail(@),
                                !.chat_sessions = Put(@, f.sessionRow.id, f.sessionRow)]
         IN  Becomes(saveChatSessionLoop(s, p, 1, t))

\* ... the SELECT of searchCompanyData
DbSearch ==
    /\ dbQueue # <<>>
    /\ database
    /\ procs[Head(dbQueue)].pc = "search"
    /\ \E t \in Times, localResults \in searchCompanyData(procs[Head(dbQueue)].userMessage) :
         Becomes(generateResponseLocal([State EXCEPT !.dbQueue = Tail(@)],
                                       Head(dbQueue), localResults, t))

\* ... the SELECT of getChatSessions
DbGetSessions ==
    /\ dbQueue # <<>>
    /\ database
    /\ procs[Head(dbQueue)].pc = "getSessions"
    /\ \E rows \in getChatSessions(State) :
         LET p == Head(dbQueue)
         IN  Becomes(getChatSessionsLoop([State EXCEPT !.dbQueue = Tail(@),
                                                       !.procs[p].rows = rows,
                                                       !.procs[p].sessions = <<>>],
                                         p, 1))

\* ... the SELECT of getSessionMessages
DbGetMessages ==
    /\ dbQueue # <<>>
    /\ database
    /\ procs[Head(dbQueue)].pc = "getMessages"
    /\ LET p == Head(dbQueue)
           f == procs[p]
           row == f.rows[f.i]
       IN  \E msgs \in getSessionMessages(State, row.id) :
             LET session == [id |-> row.id, messages |-> msgs,
                             createdAt |-> DateOf(row.created_at),
                             updatedAt |-> DateOf(row.updated_at)]
             IN  Becomes(getChatSessionsLoop(
                           [State EXCEPT !.dbQueue = Tail(@),
                                         !.procs[p].sessions = Append(@, session)],
                           p, f.i + 1))

\* the store rejects the oldest queued statement
DbFails ==
    /\ dbQueue # <<>>
    /\ database
    /\ failures < MaxFailures
    /\ \E t \in Times :
         LET p == Head(dbQueue)
             s == [State EXCEPT !.dbQueue = Tail(@),
                                !.failures = @ + 1,
                                !.threw = IF procs[p].pc = "search"
                                          THEN @ \cup {procs[p].forCall} ELSE @]
         IN  Becomes(Throw(s, p, t))

\* NetInfo.fetch of checkNetworkConnection ends: with isConnected, or by
\* throwing into the catch of getChatbotResponse
NetInfoEnds ==
    \E p \in DOMAIN procs, isConnected \in NetInfoStates \cup {"rejected"}, t \in Times :
      /\ procs[p].pc = "netinfo"
      /\ LET s == [State EXCEPT !.procs[p].isConnected = isConnected]
         IN  Becomes(IF isConnected = "rejected"
                     THEN generateResponseRemote(s, p, handleApiError([kind |-> "other"]), t)
                     ELSE IF checkNetworkConnection(isConnected)
                     THEN [s EXCEPT !.procs[p].pc = "axios",
                                    !.procs[p].apiCalled = TRUE,
                                    !.procs[p].apiCalls = @ + 1]
                     ELSE generateResponseRemote(s, p, NoConnection, t))

\* seeded fault: a remote call that did not succeed is made a second time
getChatbotResponseRetried(s, p, outcome, t) ==
    IF outcome.kind # "ok" /\ s.procs[p].apiCalls < 2
    THEN [s EXCEPT !.procs[p].apiCalls = @ + 1]
    ELSE generateResponseRemote(s, p, getChatbotResponse(outcome), t)

\* getChatbotResponse, lines 92 to 115, once axios.post has ended: it returns
\* into generateResponse whatever the outcome
getChatbotResponseReturns(s, p, outcome, t) ==
    generateResponseRemote(s, p, getChatbotResponse(outcome), t)

\* axios.post of getChatbotResponse ends
AxiosEnds ==
    \E p \in DOMAIN procs, outcome \in AxiosOutcomes, t \in Times :
      /\ procs[p].pc = "axios"
      /\ Becomes(getChatbotResponseReturns(State, p, outcome, t))


\* Math.random() is about to return, for the next message id, a number it
\* returned for an earlier one
MathRandomRepeats ==
    /\ random.value = 0
    /\ random.repeats < MaxRepeats
    /\ \E k \in 1..(nextCall - 1) :
         Becomes([State EXCEPT !.random = [value |-> k, repeats |-> @.repeats + 1]])

\* ------------------------------------------------------------------ cleanup
\* cleanup, lines 275-276, once the database is closed: the fields are reset
cleanupReset(s, p) ==
    Return([s EXCEPT !.currentSession = 0, !.isProcessing = FALSE], p,
           Result("cleanup", "void", 0, 0, FALSE))

\* closeDatabase, lines 206-208, called by cleanup at line 274
closeDatabase(s, p) ==
    IF s.database
    THEN [s EXCEPT !.procs[p].pc = "close", !.dbQueue = Append(@, p)]
    ELSE cleanupReset(s, p)

\* the UI calls cleanup(): VoiceService.destroy() is awaited, its
\* Voice.destroy() on the way to the recognizer
Cleanup ==
    /\ calls.cleanup < MaxCleanups
    /\ LET p == FreshPid(State)
       IN  Becomes([State EXCEPT
               !.procs = Put(@, p, [Frame("cleanup") EXCEPT !.pc = "destroy"]),
               !.calls.cleanup = @ + 1,
               !.voice = VoiceDestroy(@)])

\* VoiceService.destroy() settles: Voice.destroy() and Tts.stop() ended, or
\* one of them was rejected and logged at line 440
VoiceDestroyEnds ==
    \E p \in DOMAIN procs :
      /\ procs[p].pc = "destroy"
      /\ Becomes(closeDatabase(State, p))

\* the store runs the oldest queued statement, the close of the database:
\* closeDatabase sets this.database to null and cleanup resets the fields
DbClose ==
    /\ dbQueue # <<>>
    /\ database
    /\ procs[Head(dbQueue)].pc = "close"
    /\ Becomes(cleanupReset([State EXCEPT !.dbQueue = Tail(@), !.database = FALSE],
                            Head(dbQueue)))

\* a call that found the database closed resumes with the error 'Database
\* not initialized'
DatabaseNotInitialized ==
    \E p \in DOMAIN procs, t \in Times :
      /\ procs[p].pc = "throw"
      /\ Becomes(Raise(State, p, t, FALSE))

\* the oldest queued statement reaches a database that was closed before it:
\* it is rejected
DbNotOpen ==
    /\ dbQueue # <<>>
    /\ ~database
    /\ \E t \in Times :
         Becomes(Raise([State EXCEPT !.dbQueue = Tail(@)], Head(dbQueue), t, TRUE))

\* ---------------------------------------------------------------- ChatScreen
\* String.prototype.trim
WhiteSpace == {" ", "\n", "\t"}

RECURSIVE trimStart(_)
trimStart(s) ==
    IF s # <<>> /\ Head(s) \in WhiteSpace THEN trimStart(Tail(s)) ELSE s

RECURSIVE trimEnd(_)
trimEnd(s) ==
    IF s # <<>> /\ s[Len(s)] \in WhiteSpace
    THEN trimEnd(SubSeq(s, 1, Len(s) - 1))
    ELSE s

trim(s) == trimEnd(trimStart(s))

\* the longest message validateMessage accepts
MaxMessageLength == 1000

\* seeded fault: only the empty text is refused as empty
validateMessageUntrimmed(text) ==
    IF text = <<>>
    THEN [isValid |-> FALSE, error |-> "Message cannot be empty"]
    ELSE IF Len(text) > MaxMessageLength
    THEN [isValid |-> FALSE, error |-> "Message is too long (max 1000 characters)"]
    ELSE [isValid |-> TRUE, error |-> ""]

\* validateMessage
validateMessage(text) ==
    IF text = <<>> \/ Len(trim(text)) = 0
    THEN [isValid |-> FALSE, error |-> "Message cannot be empty"]
    ELSE IF Len(text) > MaxMessageLength
    THEN [isValid |-> FALSE, error |-> "Message is too long (max 1000 characters)"]
    ELSE [isValid |-> TRUE, error |-> ""]

\* what may be in the input field when the send button is pressed: typed
\* text, or the transcript of a voice input, of any length: "", "  ", " hi ",
\* "ok", and texts of 1000 and of 1001 characters
InputTexts ==
    { <<>>, <<" ", " ">>, <<" ", "h", "i", " ">>, <<"o", "k">>,
      [i \in 1..MaxMessageLength |-> "a"], [i \in 1..(MaxMessageLength + 1) |-> "a"] }

\* the input field changes: onChangeText, or setInputText(voiceText)
SetInputText ==
    /\ \E text \in InputTexts : inputText' = text
    /\ UNCHANGED <<currentSession, isProcessing, heap, chat_sessions, messages, procs,
                   dbQueue, timers, clock, nextCall, nextSession, calls, failures,
                   replyTo, returned, busyAtSend, generated, threw, lastReturn, probe, voice, random,
                   database>>

\* ChatScreen.sendMessage, the handler of the send button, up to its await.
\* The handler is taken as callable with any input and at any time: the
\* button's disabled property is not relied upon.
ScreenSendMessage ==
    /\ calls.screen < MaxScreens
    /\ \E t \in Times :
         LET p == FreshPid(State)
             s == [State EXCEPT !.calls.screen = @ + 1]
             validation == validateMessage(inputText)
         IN  Becomes(IF ~validation.isValid
                     THEN [s EXCEPT !.lastReturn =
                              Result("ChatScreen.sendMessage", "invalid", 0, 0, FALSE)]
                     ELSE sendMessage(
                              [s EXCEPT !.procs =
                                  Put(@, p, [Frame("send") EXCEPT !.screen = TRUE])],
                              p, trim(inputText), TRUE, t))

\* ChatScreen's sendWelcomeMessage: sendMessage(welcomeText, false)
SendWelcome ==
    /\ calls.welcome < MaxWelcomes
    /\ \E t \in Times :
         LET p == FreshPid(State)
         IN  Becomes(sendMessage([State EXCEPT !.procs = Put(@, p, Frame("send")),
                                               !.calls.welcome = @ + 1],
                                 p, WelcomeText, FALSE, t))

\* ------------------------------------------------------------ deleteSession
\* seeded fault: the active session is cleared whatever the identifier
deleteSessionAny(s, sessionId) == [s EXCEPT !.currentSession = 0]

\* deleteSession: this.currentSession?.id === sessionId
deleteSession(s, sessionId) ==
    IF s.currentSession # 0 /\ s.heap[s.currentSession].id = sessionId
    THEN [s EXCEPT !.currentSession = 0]
    ELSE s

\* deleteSession(sessionId) is called; it has no await and ends at once
DeleteSession ==
    /\ calls.delete < MaxDeletes
    /\ \E sessionId \in 1..nextSession :
         Becomes([deleteSession(State, sessionId) EXCEPT
                    !.calls.delete = @ + 1,
                    !.lastReturn = Result("deleteSession", "void", 0, sessionId, FALSE)])

\* ------------------------------------------- pure functions, called directly
RECURSIVE Flatten(_)
Flatten(words) == IF words = <<>> THEN <<>> ELSE Head(words) \o Flatten(Tail(words))

\* the words of the texts given to generateMockResponse: "Hi", "hello",
\* "HELP", "thanks", "ok" and a space
MockWords ==
    { <<"H", "i">>, <<"h", "e", "l", "l", "o">>, <<"H", "E", "L", "P">>,
      <<"t", "h", "a", "n", "k", "s">>, <<"o", "k">>, <<" ">> }

MockInputs ==
    { Flatten(words) : words \in UNION { [1..n -> MockWords] : n \in 1..MaxWords } }

\* the characters of the queries given to searchCompanyData
QueryChars == {"a", "P", "z", "_", "%", "\""}

Queries == UNION { [1..n -> QueryChars] : n \in 1..MaxQueryLength }

\* ApiService.generateMockResponse(message) is called
GenerateMockResponse ==
    /\ probe = NoProbe
    /\ \E message \in MockInputs :
         probe' = [fn |-> "generateMockResponse", input |-> message,
                   output |-> generateMockResponse(message)]
    /\ UNCHANGED <<currentSession, isProcessing, heap, chat_sessions, messages, procs,
                   dbQueue, timers, clock, nextCall, nextSession, calls, failures,
                   replyTo, returned, busyAtSend, generated, threw, lastReturn,
                   inputText, voice, random,
                   database>>

\* DatabaseService.searchCompanyData(query) is called and its SELECT answered
SearchCompanyData ==
    /\ probe = NoProbe
    /\ \E query \in Queries :
         \E records \in searchCompanyData(query) :
           probe' = [fn |-> "searchCompanyData", input |-> query, output |-> records]
    /\ UNCHANGED <<currentSession, isProcessing, heap, chat_sessions, messages, procs,
                   dbQueue, timers, clock, nextCall, nextSession, calls, failures,
                   replyTo, returned, busyAtSend, generated, threw, lastReturn,
                   inputText, voice, random,
                   database>>

Next ==
    \/ SendMessage
    \/ CreateNewSession
    \/ LoadSession
    \/ TimerFires
    \/ DbSaveMessage
    \/ DbSaveSession
    \/ DbSearch
    \/ DbGetSessions
    \/ DbGetMessages
    \/ DbFails
    \/ NetInfoEnds
    \/ AxiosEnds
    \/ SetInputText
    \/ ScreenSendMessage
    \/ SendWelcome
    \/ DeleteSession
    \/ GenerateMockResponse
    \/ SearchCompanyData
    \/ HandleVoiceInput
    \/ PermissionEnds
    \/ VoiceStopEnds
    \/ VoiceStartEnds
    \/ StopVoiceInput
    \/ StopVoiceInputEnds
    \/ SpeechEnd
    \/ SpeechResults
    \/ SpeechError
    \/ MathRandomRepeats
    \/ Cleanup
    \/ VoiceDestroyEnds
    \/ DbClose
    \/ DatabaseNotInitialized
    \/ DbNotOpen

Spec == Init /\ [][Next]_vars

\* sendMessage calls and the generations they schedule, on one session
NextChat ==
    \/ SendMessage
    \/ TimerFires
    \/ DbSaveMessage
    \/ DbSaveSession
    \/ DbSearch
    \/ DbFails
    \/ NetInfoEnds
    \/ AxiosEnds

SpecChat == Init /\ [][NextChat]_vars

\* sendMessage, createNewSession and loadSession calls, before any generation
\* timer has fired and with a store that rejects nothing
NextSessions ==
    \/ SendMessage
    \/ CreateNewSession
    \/ LoadSession
    \/ DbSaveMessage
    \/ DbSaveSession
    \/ DbGetSessions
    \/ DbGetMessages

SpecSessions == Init /\ [][NextSessions]_vars

\* One caller that awaits each call, as ChatScreen does in initializeChat and
\* while isLoading is set: a call is made only when no call is in flight.
\* The calls follow each other before any generation timer has fired.
Idle == DOMAIN procs = {}

AwaitedSendMessage == Idle /\ SendMessage

AwaitedCreateNewSession == Idle /\ CreateNewSession

AwaitedLoadSession == Idle /\ LoadSession

AwaitedDeleteSession == Idle /\ DeleteSession

NextAwaited ==
    \/ AwaitedSendMessage
    \/ AwaitedCreateNewSession
    \/ AwaitedLoadSession
    \/ AwaitedDeleteSession
    \/ DbSaveMessage
    \/ DbSaveSession
    \/ DbGetSessions
    \/ DbGetMessages
    \/ DbFails

SpecAwaited == Init /\ [][NextAwaited]_vars

\* One caller that sends a message, or the welcome message, only when the
\* earlier call has returned and the generation it scheduled has ended.
Settled == DOMAIN procs = {} /\ timers = <<>>

SettledSendMessage == Settled /\ SendMessage

SettledSendWelcome == Settled /\ SendWelcome

NextSettled ==
    \/ SettledSendMessage
    \/ SettledSendWelcome
    \/ TimerFires
    \/ DbSaveMessage
    \/ DbSaveSession
    \/ DbSearch
    \/ DbFails
    \/ NetInfoEnds
    \/ AxiosEnds

SpecSettled == Init /\ [][NextSettled]_vars

\* the send button of ChatScreen, before any generation timer has fired and
\* with a store that rejects nothing
NextScreen ==
    \/ SetInputText
    \/ ScreenSendMessage
    \/ DbSaveMessage
    \/ DbSaveSession

SpecScreen == Init /\ [][NextScreen]_vars

\* the Offline Generator and the Local Matcher, called directly
NextPure ==
    \/ GenerateMockResponse
    \/ SearchCompanyData

SpecPure == Init /\ [][NextPure]_vars

\* awaited sendMessage calls with their generations, and deleteSession called
\* at any moment, with a store that rejects nothing
NextDelete ==
    \/ SettledSendMessage
    \/ DeleteSession
    \/ TimerFires
    \/ DbSaveMessage
    \/ DbSaveSession
    \/ DbSearch
    \/ NetInfoEnds
    \/ AxiosEnds

SpecDelete == Init /\ [][NextDelete]_vars

\* handleVoiceInput and stopVoiceInput calls and the recognizer's events
NextVoice ==
    \/ HandleVoiceInput
    \/ PermissionEnds
    \/ VoiceStopEnds
    \/ VoiceStartEnds
    \/ StopVoiceInput
    \/ StopVoiceInputEnds
    \/ SpeechEnd
    \/ SpeechResults
    \/ SpeechError

SpecVoice == Init /\ [][NextVoice]_vars

\* One user at ChatScreen who types and sends while nothing is in flight, and
\* the generations the messages schedule
SettledSetInputText == Settled /\ SetInputText

SettledScreenSendMessage == Settled /\ ScreenSendMessage

NextReply ==
    \/ SettledSetInputText
    \/ SettledScreenSendMessage
    \/ TimerFires
    \/ DbSaveMessage
    \/ DbSaveSession
    \/ DbSearch
    \/ NetInfoEnds
    \/ AxiosEnds

SpecReply == Init /\ [][NextReply]_vars

\* sendMessage calls that draw their message ids from the clock and from
\* Math.random()
NextIds ==
    \/ SendMessage
    \/ MathRandomRepeats
    \/ DbSaveMessage
    \/ DbSaveSession

SpecIds == Init /\ [][NextIds]_vars

\* sendMessage calls made while no call is in flight, the generations they
\* schedule and a cleanup() at any moment
NextCleanup ==
    \/ AwaitedSendMessage
    \/ TimerFires
    \/ Cleanup
    \/ VoiceDestroyEnds
    \/ DbClose
    \/ DatabaseNotInitialized
    \/ DbNotOpen
    \/ DbSaveMessage
    \/ DbSaveSession
    \/ DbSearch
    \/ NetInfoEnds
    \/ AxiosEnds

SpecCleanup == Init /\ [][NextCleanup]_vars

\* The voice calls with the scheduling the platform gives: an awaited native
\* call (the permission request, Voice.start, Voice.stop) settles, and a
\* recognition that was begun ends with results or with an error.  The UI
\* is not bound to call anything.
FairVoice ==
    /\ WF_vars(PermissionEnds)
    /\ WF_vars(VoiceStopEnds)
    /\ WF_vars(VoiceStartEnds)
    /\ WF_vars(StopVoiceInputEnds)
    /\ WF_vars(SpeechResults \/ SpeechError)

SpecVoiceFair == Init /\ [][NextVoice]_vars /\ FairVoice

\* ------------------------------------------------------------------ claims
\* the active session object
Active == heap[currentSession]

\* the gen frames: the generateResponse invocations between setting and
\* clearing the in-flight flag
Generations == {p \in DOMAIN procs : procs[p].kind = "gen"}

\* the positions, in the active session, of the assistant messages that
\* answer user call c
Replies(c) ==
    {k \in 1..Len(Active.messages) :
        /\ ~Active.messages[k].isUser
        /\ Active.messages[k].id \in DOMAIN replyTo
        /\ replyTo[Active.messages[k].id] = c}

\* no call is suspended and no generation is scheduled or running
Quiescent == DOMAIN procs = {} /\ timers = <<>>

HasTimer(c) == \E k \in 1..Len(timers) : timers[k].call = c

\* the user calls whose timer fired into the guard of generateResponse
Blocked ==
    {c \in returned : c \notin busyAtSend /\ c \notin generated /\ ~HasTimer(c)}

\* C1 (as claimed): every user message that sendMessage returned has, once
\* nothing is scheduled or running any more, exactly one assistant reply.
\* Stated for runs in which the store rejected nothing.
C1_EveryUserMessageAnswered ==
    (Quiescent /\ failures = 0) =>
        \A c \in returned : Cardinality(Replies(c)) = 1

\* C2: at most one generateResponse invocation is between setting and
\* clearing the in-flight flag, and the flag is set while one is.
C2_SingleFlight ==
    /\ Cardinality(Generations) <= 1
    /\ Generations # {} => isProcessing

\* C2 witness: a generation is running and the timer of another user message
\* has fired into the guard
C2_Witness == Generations # {} /\ Blocked # {}

\* C3 (as claimed): a user message sent while a generation was running has its
\* own generation scheduled or started by the time the flag is clear again.
\* Stated for runs in which the store rejected nothing.
C3_SecondGenerationDeferred ==
    failures = 0 =>
        \A c \in busyAtSend : isProcessing \/ HasTimer(c) \/ c \in generated

\* C4: a generation whose local search returned records replies with the
\* first record (content, 0.8, database, keywords) and never consults the
\* connectivity check or the remote service.
C4_LocalMatchFirst ==
    \A p \in Generations :
        LET f == procs[p]
        IN  Len(f.localResults) > 0 =>
              /\ f.response = [text |-> f.localResults[1].content, confidence |-> 8,
                               source |-> "database",
                               relatedTopics |-> f.localResults[1].keywords]
              /\ f.isConnected = "unset" /\ ~f.apiCalled
              /\ f.phase = "try" => f.text = f.localResults[1].content
              /\ f.userMessage = <<"H", "e", "l", "p">> =>
                    /\ f.response.text = ContentSupport
                    /\ f.response.relatedTopics = KeywordsSupport

\* C4 witness: the reply built from a local match has been appended
C4_Witness ==
    \E p \in Generations :
        /\ Len(procs[p].localResults) > 0
        /\ procs[p].phase = "try"
        /\ procs[p].message.text = ContentSupport
        /\ \E k \in 1..Len(Active.messages) : Active.messages[k] = procs[p].message

\* C5: with no local match and no connectivity the remote service is not
\* called and the reply is the Offline Generator's for the same input; for
\* "hi" it is the greeting with confidence 0.9.
C5_OfflineWhenUnreachable ==
    \A p \in Generations :
        LET f == procs[p]
        IN  f.isConnected \in {"false", "null"} =>
              /\ Len(f.localResults) = 0
              /\ ~f.apiCalled
              /\ f.response = generateMockResponse(f.userMessage)
              /\ f.response.source = "default"
              /\ f.phase = "try" => f.text = f.response.text
              /\ f.userMessage = <<"h", "i">> =>
                    f.response.text = GreetingText /\ f.response.confidence = 9

\* C5 witness: "hi" was answered offline with the greeting
C5_Witness ==
    \E p \in Generations :
        /\ procs[p].userMessage = <<"h", "i">>
        /\ procs[p].isConnected = "false"
        /\ procs[p].message.text = GreetingText
        /\ procs[p].message.isUser = FALSE

\* the remote stage of generation p is over: the connectivity check ended
\* and no axios call is pending
RemoteStageOver(p) ==
    procs[p].isConnected # "unset" /\ procs[p].pc # "axios"

\* C6 (as claimed): whenever the remote call succeeded, the reply is the
\* remote one.
C6_SuccessMeansRemoteReply ==
    \A p \in Generations :
        (RemoteStageOver(p) /\ procs[p].apiResponse.success) =>
            procs[p].response.source = "api"

\* C6 (amended): after an empty local search, a successful remote call with a
\* non-empty payload gives that payload as the reply; no connectivity, a
\* failed call and a successful call without payload give the Offline
\* Generator's reply; the catch is only entered after a rejected statement.
C6_RemoteOrOffline ==
    \A p \in Generations :
        LET f == procs[p]
        IN  /\ RemoteStageOver(p) =>
                 /\ Len(f.localResults) = 0
                 /\ (f.apiResponse.success /\ f.apiResponse.data # NoResponse)
                      => f.response = f.apiResponse.data /\ f.response.source = "api"
                 /\ ~(f.apiResponse.success /\ f.apiResponse.data # NoResponse)
                      => f.response = generateMockResponse(f.userMessage)
                 /\ f.response # NoResponse
            /\ f.phase = "catch" => failures > 0

\* C6 witness: the payload of a successful remote call has been appended as
\* the reply
C6_Witness ==
    \E p \in Generations :
        /\ RemoteStageOver(p)
        /\ procs[p].apiResponse.success
        /\ procs[p].message.text = RemotePayload.text
        /\ procs[p].phase = "try"

\* C7: when the local search of the generation for user call c throws, the
\* only reply to c is the apology, appended to the session, and c's
\* sendMessage had already returned its Message.
C7_ApologyOnThrow ==
    \A c \in threw :
        /\ c \in returned
        /\ Cardinality(Replies(c)) = 1
        /\ \A k \in Replies(c) : Active.messages[k].text = ApologyText

\* C7 witness: a search threw and the apology is in the session
C7_Witness ==
    \E c \in threw : \E k \in Replies(c) : Active.messages[k].text = ApologyText

\* C8 (as claimed): a generation whose local search threw goes on as if the
\* search had found nothing: it is not in its catch and sends no apology.
C8_SearchFailureAsNoResults ==
    \A p \in Generations :
        procs[p].forCall \in threw =>
            procs[p].phase = "try" /\ procs[p].text # ApologyText

\* C8 (amended): a generation whose local search threw skips the remote and
\* the offline stage: it is in its catch, never checked connectivity, never
\* called the remote service, built no reply and sends the apology.
C8_SearchFailureSkipsStages ==
    \A p \in Generations :
        LET f == procs[p]
        IN  f.forCall \in threw =>
              /\ f.phase = "catch"
              /\ f.isConnected = "unset" /\ ~f.apiCalled
              /\ f.response = NoResponse
              /\ f.text = ApologyText

\* C8 witness: a generation is in its catch after its search threw
C8_Witness ==
    \E p \in Generations : procs[p].forCall \in threw /\ procs[p].phase = "catch"

\* C9 (as claimed): in every session in memory the messages are in the order
\* of their sendMessage calls (a message's id is its call's number).  Stated
\* for runs of sendMessage calls alone.
C9_CallOrder ==
    (calls.load = 0 /\ calls.create = 0) =>
        \A ref \in 1..Len(heap) :
            \A i, j \in 1..Len(heap[ref].messages) :
                i < j => heap[ref].messages[i].id < heap[ref].messages[j].id

\* the persisted messages of session id
Persisted(id) ==
    {MessageOf(messages[m]) : m \in {x \in DOMAIN messages : messages[x].session_id = id}}

\* C10 (as claimed): once every call has completed, a sendMessage among them,
\* the active session and the persisted session of the same identifier hold
\* the same messages and the same updated timestamp.
C10_WriteThrough ==
    (DOMAIN procs = {} /\ returned # {} /\ currentSession # 0) =>
        /\ Active.id \in DOMAIN chat_sessions
        /\ DateOf(chat_sessions[Active.id].updated_at) = Active.updatedAt
        /\ Persisted(Active.id) = {Active.messages[k] : k \in 1..Len(Active.messages)}

\* the first object in memory of the session with identifier id: the one
\* createNewSession made
FirstRef(id) ==
    CHOOSE r \in 1..Len(heap) :
        heap[r].id = id /\ \A q \in 1..(r - 1) : heap[q].id # id

\* C11 (as claimed): when loadSession(id) has returned a session, after
\* createNewSession and sendMessage calls that were each awaited and with a
\* store that rejected nothing, the message sequence of the returned session
\* equals, in order, the sequence appended in memory to that session.
C11_RoundTrip ==
    (Idle /\ failures = 0 /\ lastReturn.op = "loadSession"
          /\ lastReturn.outcome = "value") =>
        heap[lastReturn.value].messages = heap[FirstRef(lastReturn.arg)].messages

\* the loadSession calls in flight
Loads == {p \in DOMAIN procs : procs[p].kind = "load"}

\* C12: loadSession(id), awaited, with no statement of its lookup rejected:
\* when a session with that identifier is persisted, the call ends with a
\* session of that identifier as the active session and as its result; when
\* none is, it ends with null and leaves the active session reference, the
\* sessions in memory with their messages, and the in-flight flag as they
\* were.  No other step of the call changes any of these.
C12_LoadHitOrMiss ==
    [][ /\ calls'.load # calls.load =>
              /\ currentSession' = currentSession
              /\ heap' = heap
              /\ isProcessing' = isProcessing
        /\ \A p \in Loads :
              IF p \in DOMAIN procs'
              THEN /\ currentSession' = currentSession
                   /\ heap' = heap
                   /\ isProcessing' = isProcessing
              ELSE IF procs[p].sessionId \in DOMAIN chat_sessions /\ ~lastReturn'.failed
              THEN /\ lastReturn' = Result("loadSession", "value", currentSession',
                                           procs[p].sessionId, FALSE)
                   /\ currentSession' = Len(heap) + 1
                   /\ Len(heap') = Len(heap) + 1
                   /\ heap'[currentSession'].id = procs[p].sessionId
                   /\ isProcessing' = isProcessing
              ELSE /\ lastReturn'.op = "loadSession"
                   /\ lastReturn'.outcome = "null"
                   /\ currentSession' = currentSession
                   /\ heap' = heap
                   /\ isProcessing' = isProcessing
      ]_vars

\* C12 witness: a load has made a persisted session with a message the active
\* session, in place of another session
C12_Witness ==
    /\ Idle
    /\ failures = 0
    /\ lastReturn.op = "loadSession"
    /\ lastReturn.outcome = "value"
    /\ currentSession = lastReturn.value
    /\ Len(heap[currentSession].messages) > 0
    /\ \E r \in 1..Len(heap) : heap[r].id # heap[currentSession].id

\* the sendMessage calls made from outside that are in flight
Sends == {p \in DOMAIN procs : procs[p].kind = "send"}

\* C13: an awaited sendMessage that finds no active session creates exactly
\* one session, with a fresh identifier, makes it active and, when it
\* returns its Message, has appended that Message to it; one that finds an
\* active session creates none and appends the Message to that session.
C13_ImplicitSession ==
    [][ /\ calls'.send # calls.send =>
              IF currentSession = 0
              THEN /\ Len(heap') = Len(heap) + 1
                   /\ SubSeq(heap', 1, Len(heap)) = heap
                   /\ currentSession' = Len(heap')
                   /\ nextSession' = nextSession + 1
                   /\ \A r \in 1..Len(heap) : heap[r].id # heap'[currentSession'].id
                   /\ heap'[currentSession'].id \notin DOMAIN chat_sessions
              ELSE /\ Len(heap') = Len(heap)
                   /\ currentSession' = currentSession
                   /\ nextSession' = nextSession
                   /\ Len(heap'[currentSession].messages)
                          = Len(heap[currentSession].messages) + 1
                   /\ heap'[currentSession].messages[
                          Len(heap'[currentSession].messages)].id = nextCall
        /\ \A p \in Sends :
              /\ Len(heap') = Len(heap)
              /\ nextSession' = nextSession
              /\ currentSession' = currentSession
              /\ (p \notin DOMAIN procs' /\ lastReturn'.outcome = "value") =>
                    /\ lastReturn'.value = procs[p].call
                    /\ procs[p].created # 0 => currentSession' = procs[p].created
                    /\ Cardinality({k \in 1..Len(heap'[currentSession'].messages) :
                          heap'[currentSession'].messages[k].id = procs[p].call}) = 1
                    /\ \A r \in 1..Len(heap') : r # currentSession' =>
                          \A k \in 1..Len(heap'[r].messages) :
                             heap'[r].messages[k].id # procs[p].call
      ]_vars

\* C13 witness: two calls have returned, the first created the session, the
\* second appended to it
C13_Witness ==
    /\ Idle
    /\ failures = 0
    /\ calls.create = 0 /\ calls.load = 0 /\ calls.delete = 0
    /\ lastReturn.op = "sendMessage" /\ lastReturn.outcome = "value"
    /\ Len(heap) = 1
    /\ Len(heap[1].messages) = 2

\* the sendMessage invocations with isUser = false: the identifiers of the
\* assistant messages in memory
AssistantCalls ==
    UNION { {heap[r].messages[k].id :
                k \in {j \in 1..Len(heap[r].messages) : ~heap[r].messages[j].isUser}} :
            r \in 1..Len(heap) }

\* C14: no generation is ever scheduled, started or running for a message
\* that sendMessage appended with isUser = false: not for the welcome
\* message, not for a generated reply, not for the apology.
C14_AssistantTurnSchedulesNothing ==
    /\ \A k \in 1..Len(timers) : timers[k].call \notin AssistantCalls
    /\ generated \cap AssistantCalls = {}
    /\ \A p \in Generations : procs[p].forCall \notin AssistantCalls

\* C14 witness: the welcome message, a generated reply and the apology have
\* been appended and nothing is scheduled or running
C14_Witness ==
    /\ Quiescent
    /\ calls.welcome = 1
    /\ \E k \in 1..Len(Active.messages) :
          /\ Active.messages[k].id \in DOMAIN replyTo
          /\ Active.messages[k].text # ApologyText
    /\ \E k \in 1..Len(Active.messages) :
          /\ Active.messages[k].id \in DOMAIN replyTo
          /\ Active.messages[k].text = ApologyText

\* the createNewSession calls made from outside that are in flight
Creates == {p \in DOMAIN procs : procs[p].kind = "create"}

C16_StoreFailureSurfaced ==
    lastReturn.failed => lastReturn.outcome = "rejected"

\* C17: deleteSession(id), called at any moment, clears the active session
\* reference when the active session has identifier id and leaves it as it
\* was otherwise; it changes no row of chat_sessions or messages, no session
\* in memory and not the in-flight flag.
C17_DeleteSession ==
    [][ calls'.delete # calls.delete =>
          /\ lastReturn'.op = "deleteSession"
          /\ currentSession' =
                IF currentSession # 0 /\ heap[currentSession].id = lastReturn'.arg
                THEN 0
                ELSE currentSession
          /\ chat_sessions' = chat_sessions
          /\ messages' = messages
          /\ heap' = heap
          /\ isProcessing' = isProcessing
      ]_vars

\* C17 witness: deleteSession has cleared the active session, a generation is
\* running, and the session is still in the store with its message
C17_Witness ==
    /\ lastReturn.op = "deleteSession"
    /\ currentSession = 0
    /\ isProcessing
    /\ lastReturn.arg \in DOMAIN chat_sessions
    /\ \E m \in DOMAIN messages : messages[m].session_id = lastReturn.arg

\* a text that is empty or made of white space only
Blank(text) == \A i \in 1..Len(text) : text[i] \in WhiteSpace

\* C18: a press of the send button with an input that is empty, white space
\* only, or longer than 1000 characters is refused: no message is appended,
\* no session created, nothing written to the store, no call started and no
\* generation scheduled.
C18_InvalidMessageRejected ==
    [][ (calls'.screen # calls.screen /\ (Blank(inputText) \/ Len(inputText) > 1000)) =>
          /\ lastReturn'.op = "ChatScreen.sendMessage"
          /\ lastReturn'.outcome = "invalid"
          /\ UNCHANGED <<currentSession, isProcessing, heap, chat_sessions, messages,
                         procs, dbQueue, timers, nextCall, nextSession, inputText>>
      ]_vars

\* C18 witness: a text of more than 1000 characters has been refused after a
\* valid message was sent and stored
C18_Witness ==
    /\ lastReturn.op = "ChatScreen.sendMessage"
    /\ lastReturn.outcome = "invalid"
    /\ Len(inputText) > 1000
    /\ DOMAIN messages # {}
    /\ DOMAIN procs = {}

\* whether the lower-cased text contains the trigger
Triggers(text, trigger) == includes(toLowerCase(text), trigger)

\* C19: the Offline Generator's reply to a text is the greeting (0.9) when
\* the lower-cased text contains "hello" or "hi"; else the help text (0.8)
\* when it contains "help"; else the thanks text (0.9) when it contains
\* "thank"; else the echo (0.5) around the text as given.  The provenance is
\* always offline.
C19_OfflineGenerator ==
    probe.fn = "generateMockResponse" =>
        LET greeting == \/ Triggers(probe.input, <<"h", "e", "l", "l", "o">>)
                        \/ Triggers(probe.input, <<"h", "i">>)
            help == Triggers(probe.input, <<"h", "e", "l", "p">>)
            thank == Triggers(probe.input, <<"t", "h", "a", "n", "k">>)
            reply == probe.output
        IN  /\ reply.source = "default"
            /\ greeting => reply.text = GreetingText /\ reply.confidence = 9
            /\ (~greeting /\ help) => reply.text = HelpText /\ reply.confidence = 8
            /\ (~greeting /\ ~help /\ thank) =>
                  reply.text = ThanksText /\ reply.confidence = 9
            /\ (~greeting /\ ~help /\ ~thank) =>
                  /\ reply.text = EchoPrefix \o probe.input \o EchoSuffix
                  /\ reply.confidence = 5

\* C19 witness: a text with the three triggers, "thanks HELP Hi", got the
\* greeting
C19_Witness ==
    /\ probe.fn = "generateMockResponse"
    /\ probe.input = <<"t", "h", "a", "n", "k", "s", "H", "E", "L", "P", "H", "i">>
    /\ probe.output.text = GreetingText

\* whether a row of company_data contains the query, letter case apart, in
\* its title, in its content or in one of its keywords
Contains(row, query) ==
    LET keywords == JSONparse(row.keywords)
    IN  \/ Triggers(row.title, toLowerCase(query))
        \/ Triggers(row.content, toLowerCase(query))
        \/ \E k \in 1..Len(keywords) : Triggers(keywords[k], toLowerCase(query))

\* C20 (as claimed): the records searchCompanyData returns for a query are
\* exactly the records that contain the query, letter case apart, in title,
\* content or a keyword (at most 10 of them), each once, the most recently
\* updated first.
C20_LocalMatcher ==
    probe.fn = "searchCompanyData" =>
        LET records == probe.output
            expected == {row.id : row \in {r \in company_data : Contains(r, probe.input)}}
            returned_ids == {records[k].id : k \in 1..Len(records)}
        IN  /\ Len(records) <= 10
            /\ Cardinality(returned_ids) = Len(records)
            /\ returned_ids \subseteq expected
            /\ Cardinality(expected) <= 10 => returned_ids = expected
            /\ \A j, k \in 1..Len(records) :
                  j < k => DateOf(records[j].updatedAt) >= DateOf(records[k].updatedAt)

\* ------------------------------------------------- claims C21 to C30
\* C21 (as claimed): at most one listen session is active at any time: a
\* listen session begins (Voice.start reaches the recognizer) only when no
\* listen session is active, the prior one having been stopped or having
\* ended, under every interleaving of handleVoiceInput and stopVoiceInput
\* calls and recognizer events.
C21_OneListenSession ==
    [][voice'.recognizer # voice.recognizer /\ voice'.recognizer.phase = "listening"
          => voice.recognizer.phase # "listening"]_vars

\* a generateResponse invocation that passed the guard of line 131 ends in
\* this step: its frame is gone
GenerationEnds ==
    \E p \in DOMAIN procs : procs[p].kind = "gen" /\ p \notin DOMAIN procs'

\* a generateResponse invocation returns at once at line 131 in this step:
\* its timer fired while a generation was running
GenerationNoOp == Len(timers') < Len(timers) /\ isProcessing

\* C22 (amended): whenever a generateResponse invocation that passed the
\* guard ends, by normal return or after a failure, the in-flight flag is
\* clear.
C22_FlagReleased == [][GenerationEnds => ~isProcessing']_vars

\* C22 (as claimed): whenever a generateResponse invocation ends, the early
\* no-op included, the in-flight flag is clear.
C22_FlagClearOnEveryExit ==
    [][GenerationEnds \/ GenerationNoOp => ~isProcessing']_vars

\* C22 witness: a generation whose local search threw has ended and the
\* flag is clear.
C22_Witness ==
    /\ ~isProcessing
    /\ \E c \in threw : \A p \in DOMAIN procs : procs[p].kind = "gen" => procs[p].forCall # c

\* the store writes the chat_sessions row of the statement at the head of
\* its queue in this step
SessionRowWritten ==
    /\ dbQueue # <<>>
    /\ procs[Head(dbQueue)].pc \in {"send_row", "create_row"}
    /\ failures' = failures
    /\ Head(dbQueue) \in DOMAIN procs' => procs'[Head(dbQueue)] # procs[Head(dbQueue)]

\* C23 (as claimed): for every append, the message is written to the store
\* before the chat_sessions row that carries the updatedAt of that append:
\* whenever a session row is written, the message whose append set the
\* updatedAt it carries is already in the messages table.
C23_MessageBeforeSession ==
    [][SessionRowWritten =>
          LET f == procs[Head(dbQueue)]
          IN  f.carries # 0 => f.carries \in DOMAIN messages]_vars

\* the active in-memory session is not older than any message it holds
UpdatedAtCoversMemory ==
    currentSession # 0 =>
        \A k \in 1..Len(heap[currentSession].messages) :
            heap[currentSession].messages[k].timestamp <= heap[currentSession].updatedAt

\* no persisted session is older than a persisted message of it
UpdatedAtCoversStore ==
    \A m \in DOMAIN messages :
        messages[m].session_id \in DOMAIN chat_sessions =>
            DateOf(messages[m].timestamp)
                <= DateOf(chat_sessions[messages[m].session_id].updated_at)

\* C24 (as claimed): in every reachable state each session's updatedAt is
\* greater than or equal to the timestamp of every message it contains, for
\* the active in-memory session and for every persisted session.
C24_UpdatedAtCoversMessages == UpdatedAtCoversMemory /\ UpdatedAtCoversStore

\* the messages held in the sessions in memory
HeldMessages == Held(State)

\* C25 (as claimed): every message held in a session, user or assistant, has
\* a non-empty text of at most 1000 characters.
C25_TextWithinLimit ==
    \A m \in HeldMessages : m.text # <<>> /\ Len(m.text) <= MaxMessageLength

\* C26 (as claimed): message identifiers are globally unique: no two distinct
\* messages, at two places of one session or in two sessions, carry the same
\* identifier.
C26_UniqueMessageIds ==
    \A r1, r2 \in 1..Len(heap) :
        \A k1 \in 1..Len(heap[r1].messages), k2 \in 1..Len(heap[r2].messages) :
            (heap[r1].id # heap[r2].id \/ (r1 = r2 /\ k1 # k2))
                => heap[r1].messages[k1].id # heap[r2].messages[k2].id

\* C27: the remote query is attempted only after the connectivity precheck
\* has passed, and at most once per generation: after a remote call that
\* failed, was unsuccessful or timed out no second one is made.
C27_RemoteCalledOnceAfterPrecheck ==
    \A p \in Generations :
        /\ procs[p].apiCalls <= 1
        /\ procs[p].apiCalls > 0 => procs[p].isConnected = "true"
        /\ procs[p].pc = "axios" => procs[p].apiCalls = 1

\* C27 witness: a generation whose one remote call got no answer has gone
\* on to the Offline Generator's reply.
C27_Witness ==
    \E p \in Generations :
        /\ procs[p].apiCalls = 1
        /\ procs[p].pc \notin {"netinfo", "axios"}
        /\ ~procs[p].apiResponse.success
        /\ procs[p].message.text = generateMockResponse(procs[p].userMessage).text
        /\ procs[p].message.isUser = FALSE

\* C28 (as claimed): every assistant message produced by a generation is
\* appended to the session that contains the user message which triggered
\* it, also when the active session was replaced or cleared in between.
C28_ReplyInSessionOfItsMessage ==
    \A r \in 1..Len(heap) :
        \A k \in 1..Len(heap[r].messages) :
            heap[r].messages[k].id \in DOMAIN replyTo =>
                \E j \in 1..Len(heap[r].messages) :
                    /\ heap[r].messages[j].isUser
                    /\ heap[r].messages[j].id = replyTo[heap[r].messages[k].id]

\* C29 (as claimed): a cleanup() called while a generation is in flight does
\* not let a second generation start before the first one has ended: at
\* most one generation is in flight, under every interleaving with cleanup.
C29_SingleFlightUnderCleanup == \A p, q \in Generations : p = q

\* C30 (as claimed): the session snapshot sendMessage persists after its
\* message is that of the session to which it appended the message, also
\* when the active session was replaced while the message was being
\* persisted.
C30_SnapshotOfAppendedSession ==
    \A p \in DOMAIN procs :
        procs[p].pc = "send_row" =>
            heap[procs[p].session].id = heap[procs[p].appended].id

\* ------------------------------------------------- claims C31 to C34
\* C31 (as claimed): a loadSession that overlaps a sendMessage on the same
\* session installs no stale copy: once the calls have completed, the active
\* session holds every message that was appended to that session.
C31_NoStaleCopy ==
    (Idle /\ currentSession # 0) =>
        \A r \in 1..Len(heap) :
            heap[r].id = heap[currentSession].id =>
                \A k \in 1..Len(heap[r].messages) :
                    \E j \in 1..Len(heap[currentSession].messages) :
                        heap[currentSession].messages[j].id = heap[r].messages[k].id

\* C32 (as claimed): when the store fails during createNewSession or
\* sendMessage the call fails with the in-memory state as it was: no
\* unpersisted session has become the active one and no unpersisted message
\* remains in the active session.
C32_FailureLeavesMemoryUnchanged ==
    (/\ Idle
     /\ lastReturn.failed
     /\ lastReturn.outcome = "rejected"
     /\ lastReturn.op \in {"createNewSession", "sendMessage"}
     /\ currentSession # 0)
        => /\ heap[currentSession].id \in DOMAIN chat_sessions
           /\ \A k \in 1..Len(heap[currentSession].messages) :
                 heap[currentSession].messages[k].id \in DOMAIN messages

\* C33 (as claimed): one generation appends at most one assistant message to
\* the session in memory, also when persisting the reply fails: the reply
\* and the apology are never both appended for the same user message.
C33_OneReplyPerGeneration ==
    \A r \in 1..Len(heap) :
        \A c \in generated :
            Cardinality({k \in 1..Len(heap[r].messages) :
                            /\ heap[r].messages[k].id \in DOMAIN replyTo
                            /\ replyTo[heap[r].messages[k].id] = c}) <= 1

\* C34 (as claimed): every handleVoiceInput call eventually settles, resolved
\* with the recognized text or rejected with an error, also when
\* stopVoiceInput is called, when recognition ends with no or an empty
\* result, or when another listen is started before a result arrives.
C34_VoiceInputSettles ==
    \A h \in 1..MaxListens :
        (Len(voice.promise) >= h) ~>
            (Len(voice.promise) >= h /\ voice.promise[h] # "pending")

====
